---- MODULE Spec2Model ----
(***************************************************************************)
(* Model of the visual-novel story interpreter (engine.js) and of the      *)
(* story validator (validator.js), together with the step builders of      *)
(* story-format.js.                                                        *)
(*                                                                         *)
(* Strings that the code splits on '.' (node ids) are sequences of tokens: *)
(* a token is either the separator "." or a dot-free piece of text.  The   *)
(* empty sequence is the empty string; null and the empty string are both  *)
(* falsy in every test the engine makes on a node id, and are both written *)
(* NullId (a story without start says so in its absent field).             *)
(* JavaScript values stored in story variables are tagged records          *)
(* (Num, Str, Undefined); author-supplied functions (test, compute value,  *)
(* effect) are descriptors interpreted by callTest, callValue, callEffect. *)
(***************************************************************************)
EXTENDS Integers, Sequences, FiniteSets, Bags, TLC

(***************************************************************************)
(* Bounds of the model.                                                    *)
(***************************************************************************)
\* Number-valued story variables stay within -MaxScore .. MaxScore.
MaxScore == 5
\* Length of the generated Start node of the generated stories.
GenLen == 2
\* Largest number of steps one walk (one handler call) may execute before it
\* is reported as not terminating.
MaxWalk == 12

(***************************************************************************)
(* JavaScript values.                                                      *)
(***************************************************************************)
Num(n) == [t |-> "number", num |-> n, str |-> "", fn |-> "", key |-> ""]
Str(s) == [t |-> "string", num |-> 0, str |-> s, fn |-> "", key |-> ""]
Undefined == [t |-> "undefined", num |-> 0, str |-> "", fn |-> "", key |-> ""]
\* state => state.variables[key] + n
AddFn(k, n) == [t |-> "function", num |-> n, str |-> "", fn |-> "add", key |-> k]
\* state => { throw ... }
ThrowFn == [t |-> "function", num |-> 0, str |-> "", fn |-> "throw", key |-> ""]

NullId == <<>>
Id(a) == <<a>>
Dotted(a, b) == <<a, ".", b>>

\* JavaScript truthiness of a string (undefined, null and "" are falsy), for
\* a plain string and for a node id.
Truthy(s) == s # ""
TruthyId(nodeId) == nodeId # NullId

(***************************************************************************)
(* Author-supplied functions.                                              *)
(***************************************************************************)
\* state => state.variables[key] >= n
GeTest(k, n) == [fn |-> "ge", key |-> k, num |-> n]
NoTest == [fn |-> "", key |-> "", num |-> 0]

\* no effect function (a two-element option)
NoEffect == [fn |-> "", key |-> "", val |-> Undefined]
\* state => { state.variables[key] += n }
AddEffect(k, n) == [fn |-> "add", key |-> k, val |-> Num(n)]
\* state => state.variables[key] = v
SetEffect(k, v) == [fn |-> "set", key |-> k, val |-> v]
\* state => { throw ... }
ThrowEffect == [fn |-> "throw", key |-> "", val |-> Undefined]

\* ChoiceOption: [label, nodeId, effectFn?]
Option(label, nodeId, effectFn) ==
    [label |-> label, nodeId |-> nodeId, effectFn |-> effectFn,
     array |-> TRUE, arity |-> IF effectFn = NoEffect THEN 2 ELSE 3]
\* Options that are not of the ChoiceOption type: an array of the label
\* alone, an array with a fourth element, an empty array, and a string in
\* the place of the array. label, nodeId and effectFn are what the
\* destructuring [label, nodeId, effectFn] = option reads.
LabelOnlyOption(label) ==
    [Option(label, NullId, NoEffect) EXCEPT !.arity = 1]
FourElementOption(label, nodeId, effectFn) ==
    [Option(label, nodeId, effectFn) EXCEPT !.arity = 4]
EmptyOption == [Option("", NullId, NoEffect) EXCEPT !.arity = 0]
StringOption == [Option("", NullId, NoEffect) EXCEPT !.array = FALSE]

(***************************************************************************)
(* Step builders (story-format.js).  A field a builder does not set is     *)
(* undefined in the code and holds its falsy default here.                 *)
(***************************************************************************)
BlankStep ==
    [type |-> "", id |-> "", pose |-> "", position |-> "", who |-> "",
     text |-> "", key |-> "", value |-> Undefined, nodeId |-> NullId,
     test |-> NoTest, thenNodeId |-> NullId, elseNodeId |-> NullId,
     prompt |-> "", options |-> <<>>]

background(id) == [BlankStep EXCEPT !.type = "background", !.id = id]
showCharacter(id, pose, position) ==
    [BlankStep EXCEPT !.type = "show_character", !.id = id, !.pose = pose,
                      !.position = position]
hideCharacter(id) == [BlankStep EXCEPT !.type = "hide_character", !.id = id]
dialogue(who, text) ==
    [BlankStep EXCEPT !.type = "dialogue", !.who = who, !.text = text]
narration(text) == [BlankStep EXCEPT !.type = "narration", !.text = text]
setVariable(key, value) ==
    [BlankStep EXCEPT !.type = "set_variable", !.key = key, !.value = value]
jumpTo(nodeId) == [BlankStep EXCEPT !.type = "jump_to", !.nodeId = nodeId]
conditionalJump(test, thenNodeId, elseNodeId) ==
    [BlankStep EXCEPT !.type = "conditional_jump", !.test = test,
                      !.thenNodeId = thenNodeId, !.elseNodeId = elseNodeId]
choice(prompt, options) ==
    [BlankStep EXCEPT !.type = "choice", !.prompt = prompt, !.options = options]
endStory == [BlankStep EXCEPT !.type = "end_story"]
\* a step record whose type is none of the StepType values
unknownStep == [BlankStep EXCEPT !.type = "fade_out"]

(***************************************************************************)
(* The node tree: a key maps to a leaf (a step array) or to a group.       *)
(***************************************************************************)
Leaf(steps) == [kind |-> "leaf", steps |-> steps, children |-> <<>>]
Group(children) == [kind |-> "group", steps |-> <<>>, children |-> children]

\* String.prototype.split('.') on a token sequence.
RECURSIVE SplitFrom(_, _, _)
SplitFrom(s, i, cur) ==
    IF i > Len(s) THEN <<cur>>
    ELSE IF s[i] = "." THEN <<cur>> \o SplitFrom(s, i + 1, <<>>)
    ELSE SplitFrom(s, i + 1, Append(cur, s[i]))
Split(s) == SplitFrom(s, 1, <<>>)

\* Array.prototype.join('.') on a sequence of token sequences.
RECURSIVE Join(_)
Join(parts) ==
    IF Len(parts) = 0 THEN <<>>
    ELSE IF Len(parts) = 1 THEN parts[1]
    ELSE parts[1] \o <<".">> \o Join(Tail(parts))

\* Values a walk of resolveNode can meet besides groups and leaves: a step
\* object (steps holds it), the options array of a choice step and one of
\* its option arrays (children holds the options), a number, undefined.
StepObject(step) == [kind |-> "step", steps |-> <<step>>, children |-> <<>>]
OptionsArray(options) ==
    [kind |-> "options", steps |-> <<>>, children |-> options]
OptionArray(option) ==
    [kind |-> IF option.array THEN "option" ELSE "string", steps |-> <<>>,
     children |-> <<option>>]
NumberValue == [kind |-> "number", steps |-> <<>>, children |-> <<>>]
UndefinedValue == [kind |-> "undefined", steps |-> <<>>, children |-> <<>>]

\* The segments that are array indices, with the index they name.
IndexOf == ("0" :> 0) @@ ("1" :> 1) @@ ("2" :> 2)
IsIndex(part) == Len(part) = 1 /\ part[1] \in DOMAIN IndexOf

\* part names an element of an array of n elements.
InRange(n, part) == IsIndex(part) /\ IndexOf[part[1]] < n

\* array[part] for an array of n elements when part names no element: the
\* length if part is "length" (0 is falsy), undefined otherwise.
LengthProp(n, part) ==
    IF part = <<"length">> /\ n > 0 THEN NumberValue ELSE UndefinedValue

\* current[part], for the segments a path is made of here: node names,
\* indices, "options" and "length".  A group has its keys; a step array has
\* its steps and its length; of a step object only the options of a choice
\* step are read; an options array has its option arrays; a number has no
\* such property.  The elements of an option array (label, target, effect)
\* are not descended into.
Prop(current, part) ==
    CASE current.kind = "group" ->
            IF part \in DOMAIN current.children
            THEN current.children[part] ELSE UndefinedValue
      [] current.kind = "leaf" ->
            IF InRange(Len(current.steps), part)
            THEN StepObject(current.steps[IndexOf[part[1]] + 1])
            ELSE LengthProp(Len(current.steps), part)
      [] current.kind = "step" ->
            IF part = <<"options">> /\ current.steps[1].type = "choice"
            THEN OptionsArray(current.steps[1].options)
            ELSE UndefinedValue
      [] current.kind = "options" ->
            IF InRange(Len(current.children), part)
            THEN OptionArray(current.children[IndexOf[part[1]] + 1])
            ELSE LengthProp(Len(current.children), part)
      [] OTHER -> UndefinedValue

\* A node tree entry that is null.
NullEntry == [kind |-> "null", steps |-> <<>>, children |-> <<>>]

\* !current || !current[part]
HasKey(current, part) == Prop(current, part).kind \notin {"undefined", "null"}

\* Array.isArray(current)
IsArray(current) == current.kind \in {"leaf", "options", "option"}

\* A step that is null: reading its type throws.
NullStep == [BlankStep EXCEPT !.type = "null"]

\* The elements of an array read as steps: the steps of a leaf; an option
\* array, a label, a target or an effect has no type; a null target is null.
AsSteps(current) ==
    CASE current.kind = "leaf" -> current.steps
      [] current.kind = "options" ->
            [i \in 1..Len(current.children) |-> BlankStep]
      [] current.kind = "option" ->
            [k \in 1..current.children[1].arity |->
                IF k = 2 /\ ~TruthyId(current.children[1].nodeId)
                THEN NullStep ELSE BlankStep]
      [] OTHER -> <<>>

\* The loop of resolveNode from segment i on, at tree value current.
RECURSIVE resolveFrom(_, _, _)
resolveFrom(current, parts, i) ==
    IF i > Len(parts)
    THEN IF IsArray(current)
         THEN [ok |-> TRUE, steps |-> AsSteps(current), error |-> "",
               failedAt |-> <<>>]
         ELSE [ok |-> FALSE, steps |-> <<>>, error |-> "not a step array",
               failedAt |-> <<>>]
    ELSE IF ~HasKey(current, parts[i])
         THEN [ok |-> FALSE, steps |-> <<>>, error |-> "not found",
               failedAt |-> Join(SubSeq(parts, 1, i))]
         ELSE resolveFrom(Prop(current, parts[i]), parts, i + 1)

\* resolveNode as it would be if "Failed at" were the whole path.
resolveNode_FailedAtWholePath(story, nodeId) ==
    LET r == resolveFrom(Group(story.nodes), Split(nodeId), 1)
    IN  IF r.error = "not found" THEN [r EXCEPT !.failedAt = nodeId] ELSE r

\* VisualNovelEngine.resolveNode: the step array at a dotted path, or null
\* (ok = FALSE) with what the code logs.
resolveNode(story, nodeId) ==
    resolveFrom(Group(story.nodes), Split(nodeId), 1)


(***************************************************************************)
(* State of one VisualNovelEngine instance.                                *)
(***************************************************************************)
VARIABLES
    story,              \* this.story (never assigned after construction)
    currentNode,        \* this.currentNode (NullId: null)
    currentSteps,       \* this.currentSteps
    currentStepIndex,   \* this.currentStepIndex (zero-based)
    variables,          \* this.state.variables
    variablesObject,    \* the object this.state.variables refers to
    waitingForInput,    \* this.waitingForInput
    choiceButtons,      \* the click handlers of the buttons in #choice-buttons
    choiceMenuHidden,   \* #choice-menu has class 'hidden'
    buttonsOf,          \* history: the choice step that made choiceButtons
    visibleCharacters,  \* this.visibleCharacters
    backgroundImage,    \* #background style.backgroundImage
    speakerName,        \* #speaker-name textContent
    dialogueText,       \* #dialogue-text textContent
    continueVisible,    \* #continue-indicator has class 'visible'
    log,                \* history: what the last handler call did, in order
    status,             \* history: how the last handler call ended
    last,               \* history: the last signal and the state it found
    mode,               \* history: where the last walk stopped
    ended,              \* history: an end_story step has been executed
    validationErrors,   \* what validateStory(story) returned
    resolved,           \* a path and what the two resolveNode returned for it
    calls               \* history: the functions called on the document

vars == <<story, currentNode, currentSteps, currentStepIndex, variables,
          variablesObject, waitingForInput, choiceButtons, choiceMenuHidden, buttonsOf,
          visibleCharacters, backgroundImage, speakerName, dialogueText,
          continueVisible, log, status, last, mode, ended, validationErrors,
          resolved, calls>>

\* Every object inherits the properties of Object.prototype: obj[name] of
\* such a name is a function (truthy) that has no properties of the story
\* format. "constructor" stands for them.
InheritedNames == {"constructor"}
InheritedValue == "function Object() { [native code] }"

VarKeys == {"score", "color"}
Positions == {"left", "center", "right"}
NaN == [t |-> "NaN", num |-> 0, str |-> "", fn |-> "", key |-> ""]

\* An entry of the log: what happened (a step was executed, an effect ran, a
\* jump was made or failed, a node was completed), with the node, cursor and
\* variables of the engine and the characters on stage at that moment; type
\* is the type of an executed step and target the node id a jump was asked
\* for.
Event(ev, e, type, target) ==
    [ev |-> ev, node |-> e.currentNode, idx |-> e.currentStepIndex,
     type |-> type, target |-> target, variables |-> e.variables,
     visible |-> e.visibleCharacters]
Logged(e, ev, type, target) ==
    [e EXCEPT !.log = Append(@, Event(ev, e, type, target))]

\* step.test(this.state)
callTest(test, e) ==
    e.variables[test.key].t = "number" /\ e.variables[test.key].num >= test.num

\* value(this.state) for a compute function that returns
\* state.variables[key] + n (undefined + n is NaN).
callValue(value, e) ==
    IF e.variables[value.key].t = "number"
    THEN Num(e.variables[value.key].num + value.num)
    ELSE NaN

\* effectFn(this.state): the variables after the effect ran.
callEffect(effectFn, e) ==
    IF effectFn.fn = "add"
    THEN [e.variables EXCEPT ![effectFn.key] =
             IF @.t = "number" THEN Num(@.num + effectFn.val.num) ELSE NaN]
    ELSE [e.variables EXCEPT ![effectFn.key] = effectFn.val]


(***************************************************************************)
(* The handlers work on a record e of the engine's fields (e.story is      *)
(* this.story); e.fuel counts the steps the current walk may still execute.*)
(***************************************************************************)

\* An assignment to this.state.variables[key] writes the object the field
\* refers to: the constructor's copy, or the story's own variables if the
\* two were the same object.
writeVariables(e, v) ==
    IF e.variablesObject = "story.variables"
    THEN [e EXCEPT !.variables = v, !.story.variables = v]
    ELSE [e EXCEPT !.variables = v]

\* VisualNovelEngine.setBackground
setBackground(e, placeId) ==
    IF "places" \in e.story.absent THEN [e EXCEPT !.status = "raised"]
    ELSE IF placeId \in DOMAIN e.story.places
    THEN IF ~Truthy(e.story.places[placeId]) THEN e
         ELSE [e EXCEPT !.backgroundImage = e.story.places[placeId]]
    ELSE IF placeId \in InheritedNames
    THEN [e EXCEPT !.backgroundImage = InheritedValue]
    ELSE e

\* VisualNovelEngine.showCharacter (pose and position are the names of the
\* enum objects; "" stands for a missing one)
showCharacter_(e, charId, pose, position) ==
    IF "characters" \in e.story.absent THEN [e EXCEPT !.status = "raised"]
    ELSE IF charId \notin DOMAIN e.story.characters \cup InheritedNames THEN e
    ELSE IF ~Truthy(pose) THEN e
    ELSE IF charId \notin DOMAIN e.story.characters
            \/ "poses" \in e.story.absent
         \* character.poses is undefined: character.poses[poseName] throws
         THEN [e EXCEPT !.status = "raised"]
    ELSE IF pose \notin DOMAIN e.story.characters[charId].poses
                           \cup InheritedNames THEN e
    ELSE IF ~Truthy(position) THEN e
    ELSE IF position \notin Positions THEN e
    ELSE [e EXCEPT !.visibleCharacters[position] = charId]

\* hideCharacter as it would be if it cleared the whole stage once the
\* character is found on it.
hideCharacter__ClearsStage(e, charId) ==
    [e EXCEPT !.visibleCharacters =
        IF \E p \in Positions : @[p] = charId
        THEN [p \in Positions |-> ""]
        ELSE @]

\* VisualNovelEngine.hideCharacter ("" in visibleCharacters is null)
hideCharacter_(e, charId) ==
    [e EXCEPT !.visibleCharacters =
        [p \in Positions |-> IF @[p] = charId THEN "" ELSE @[p]]]

\* VisualNovelEngine.showDialogue
showDialogue(e, who, text) ==
    IF ~Truthy(who) THEN e
    ELSE IF ~Truthy(text) THEN e
    ELSE [e EXCEPT
            !.speakerName = IF who \in DOMAIN e.story.characters
                            THEN e.story.characters[who].name ELSE who,
            !.dialogueText = text,
            !.waitingForInput = TRUE,
            !.continueVisible = TRUE]

\* VisualNovelEngine.showNarration
showNarration(e, text) ==
    IF ~Truthy(text) THEN e
    ELSE [e EXCEPT !.speakerName = "",
                   !.dialogueText = text,
                   !.waitingForInput = TRUE,
                   !.continueVisible = TRUE]

\* setVariable as it would be if a compute function were stored instead of
\* being called.
setVariable__StoresUncalled(e, key, value) ==
    IF ~Truthy(key) THEN e
    ELSE writeVariables(e, [e.variables EXCEPT ![key] = value])

\* setVariable as it would be if its catch block did not rethrow.
setVariable__Swallows(e, key, value) ==
    IF ~Truthy(key) THEN e
    ELSE IF value.t = "function"
         THEN IF value.fn = "throw"
              THEN e
              ELSE writeVariables(e, [e.variables EXCEPT
                                          ![key] = callValue(value, e)])
         ELSE writeVariables(e, [e.variables EXCEPT ![key] = value])

\* VisualNovelEngine.setVariable: a throwing compute function leaves the
\* variable unassigned and the exception propagates.
setVariable_(e, key, value) ==
    IF ~Truthy(key) THEN e
    ELSE IF value.t = "function"
         THEN IF value.fn = "throw"
              THEN [e EXCEPT !.status = "raised"]
              ELSE writeVariables(e, [e.variables EXCEPT
                                          ![key] = callValue(value, e)])
         ELSE writeVariables(e, [e.variables EXCEPT ![key] = value])

\* The buttons showChoices creates: one per option that has a label, in order.
RECURSIVE makeButtons(_)
makeButtons(options) ==
    IF Len(options) = 0 THEN <<>>
    ELSE IF ~Head(options).array \/ ~Truthy(Head(options).label)
         THEN makeButtons(Tail(options))
    ELSE <<Head(options)>> \o makeButtons(Tail(options))

\* VisualNovelEngine.showChoices (buttonsOf is history: the choice step the
\* buttons were made for)
showChoices(e, prompt, options) ==
    IF Len(options) = 0 THEN e
    ELSE [e EXCEPT !.choiceMenuHidden = FALSE,
                   !.choiceButtons = makeButtons(options),
                   !.buttonsOf = [node |-> e.currentNode,
                                  idx |-> e.currentStepIndex],
                   !.waitingForInput = TRUE]

\* VisualNovelEngine.endStory
endStory_(e) ==
    [e EXCEPT !.speakerName = "",
              !.dialogueText = "THE END",
              !.continueVisible = FALSE]


(***************************************************************************)
(* The walk: executeSteps, executeStep and jumpToNode call one another.    *)
(* executeStep gives the engine after the step and the value it returns    *)
(* (pause: stop walking the current sequence).                             *)
(***************************************************************************)
RECURSIVE executeSteps(_)

\* jumpToNode as it would be without the reset of the cursor.
jumpToNode_KeepsCursor(e, nodeId) ==
    LET steps == resolveNode(e.story, nodeId)
    IN  IF ~steps.ok
        THEN Logged(e, "jump_failed", "", nodeId)
        ELSE executeSteps(Logged([e EXCEPT !.currentNode = nodeId,
                                           !.currentSteps = steps.steps],
                                 "jump", "", nodeId))

\* jumpToNode as it would be if it made the target the current node before
\* it looked at what resolveNode returned.
jumpToNode_AdoptsUnresolved(e, nodeId) ==
    LET steps == resolveNode(e.story, nodeId)
    IN  IF ~steps.ok
        THEN Logged([e EXCEPT !.currentNode = nodeId], "jump_failed", "",
                    nodeId)
        ELSE executeSteps(Logged([e EXCEPT !.currentNode = nodeId,
                                           !.currentSteps = steps.steps,
                                           !.currentStepIndex = 0],
                                 "jump", "", nodeId))

\* VisualNovelEngine.jumpToNode
jumpToNode(e, nodeId) ==
    LET steps == resolveNode(e.story, nodeId)
    IN  IF ~steps.ok
        THEN Logged(e, "jump_failed", "", nodeId)
        ELSE executeSteps(Logged([e EXCEPT !.currentNode = nodeId,
                                           !.currentSteps = steps.steps,
                                           !.currentStepIndex = 0],
                                 "jump", "", nodeId))

\* executeStep, case StepType.dialogue
stepDialogue(e, step) ==
    [e |-> showDialogue(e, step.who, step.text), pause |-> TRUE]

\* The narration case as it would be if it returned false (the walk goes
\* on without waiting for an advance).
stepNarration_NoPause(e, step) ==
    [e |-> showNarration(e, step.text), pause |-> FALSE]

\* executeStep, case StepType.narration
stepNarration(e, step) ==
    [e |-> showNarration(e, step.text), pause |-> TRUE]

\* The jump_to case as it would be if it returned false (go on walking).
stepJumpTo_ContinuesAfter(e, step) ==
    [e |-> jumpToNode(e, step.nodeId), pause |-> FALSE]

\* executeStep, case StepType.jump_to
stepJumpTo(e, step) ==
    [e |-> jumpToNode(e, step.nodeId), pause |-> TRUE]

\* The conditional_jump case as it would be if falling through returned
\* true (stop walking).
stepConditionalJump_PausesOnFallthrough(e, step) ==
    IF step.test.fn = ""
    THEN [e |-> [e EXCEPT !.status = "raised"], pause |-> TRUE]
    ELSE LET testResult == callTest(step.test, e)
         IN  IF testResult /\ TruthyId(step.thenNodeId)
             THEN [e |-> jumpToNode(e, step.thenNodeId), pause |-> TRUE]
             ELSE IF ~testResult /\ TruthyId(step.elseNodeId)
             THEN [e |-> jumpToNode(e, step.elseNodeId), pause |-> TRUE]
             ELSE [e |-> e, pause |-> TRUE]

\* The conditional_jump case as it would be if the second branch tested
\* testResult instead of !testResult.
stepConditionalJump_ElseOnTrue(e, step) ==
    IF step.test.fn = ""
    THEN [e |-> [e EXCEPT !.status = "raised"], pause |-> TRUE]
    ELSE LET testResult == callTest(step.test, e)
         IN  IF ~testResult /\ TruthyId(step.thenNodeId)
             THEN [e |-> jumpToNode(e, step.thenNodeId), pause |-> TRUE]
             ELSE IF testResult /\ TruthyId(step.elseNodeId)
             THEN [e |-> jumpToNode(e, step.elseNodeId), pause |-> TRUE]
             ELSE [e |-> e, pause |-> FALSE]

\* executeStep, case StepType.conditional_jump (a missing test is a call of
\* undefined, which throws)
stepConditionalJump(e, step) ==
    IF step.test.fn = ""
    THEN [e |-> [e EXCEPT !.status = "raised"], pause |-> TRUE]
    ELSE LET testResult == callTest(step.test, e)
         IN  IF testResult /\ TruthyId(step.thenNodeId)
             THEN [e |-> jumpToNode(e, step.thenNodeId), pause |-> TRUE]
             ELSE IF ~testResult /\ TruthyId(step.elseNodeId)
             THEN [e |-> jumpToNode(e, step.elseNodeId), pause |-> TRUE]
             ELSE [e |-> e, pause |-> FALSE]

\* executeStep, case StepType.choice
stepChoice(e, step) ==
    [e |-> showChoices(e, step.prompt, step.options), pause |-> TRUE]

\* executeStep, case StepType.end_story
stepEndStory(e, step) ==
    [e |-> endStory_(e), pause |-> TRUE]

\* VisualNovelEngine.executeStep
executeStep(e0, step) ==
    LET e == [Logged(e0, "step", step.type, NullId) EXCEPT !.fuel = @ - 1]
    IN  CASE step = NullStep ->
                [e |-> [e EXCEPT !.status = "raised"], pause |-> FALSE]
          [] step.type = "background" ->
                [e |-> setBackground(e, step.id), pause |-> FALSE]
          [] step.type = "show_character" ->
                [e |-> showCharacter_(e, step.id, step.pose, step.position),
                 pause |-> FALSE]
          [] step.type = "hide_character" ->
                [e |-> hideCharacter_(e, step.id), pause |-> FALSE]
          [] step.type = "dialogue" -> stepDialogue(e, step)
          [] step.type = "narration" -> stepNarration(e, step)
          [] step.type = "set_variable" ->
                [e |-> setVariable_(e, step.key, step.value), pause |-> FALSE]
          [] step.type = "jump_to" -> stepJumpTo(e, step)
          [] step.type = "conditional_jump" -> stepConditionalJump(e, step)
          [] step.type = "choice" -> stepChoice(e, step)
          [] step.type = "end_story" -> stepEndStory(e, step)
          [] OTHER -> [e |-> e, pause |-> FALSE]

\* executeSteps as it would be if its loop did not move the cursor past a
\* step that does not pause.
RECURSIVE executeSteps_WithoutIncrement(_)
executeSteps_WithoutIncrement(e) ==
    IF e.currentStepIndex < Len(e.currentSteps)
    THEN IF e.fuel = 0
         THEN [e EXCEPT !.status = "diverged"]
         ELSE LET r == executeStep(e, e.currentSteps[e.currentStepIndex + 1])
              IN  IF r.e.status # "ok" THEN r.e
                  ELSE IF r.pause THEN r.e
                  ELSE executeSteps_WithoutIncrement(r.e)
    ELSE Logged(e, "node_complete", "", NullId)

\* VisualNovelEngine.executeSteps.  A walk that has used up its fuel with
\* steps left is reported as diverged; a raised exception ends every
\* enclosing walk.
executeSteps(e) ==
    IF e.currentStepIndex < Len(e.currentSteps)
    THEN IF e.fuel = 0
         THEN [e EXCEPT !.status = "diverged"]
         ELSE LET r == executeStep(e, e.currentSteps[e.currentStepIndex + 1])
              IN  IF r.e.status # "ok" THEN r.e
                  ELSE IF r.pause THEN r.e
                  ELSE executeSteps([r.e EXCEPT !.currentStepIndex = @ + 1])
    ELSE Logged(e, "node_complete", "", NullId)

\* advance as it would be if it resumed the walk without moving the cursor
\* past the step that suspended it.
advance_NoIncrement(e) ==
    IF e.waitingForInput
    THEN executeSteps([e EXCEPT !.waitingForInput = FALSE,
                                !.continueVisible = FALSE])
    ELSE e

\* VisualNovelEngine.advance
advance(e) ==
    IF e.waitingForInput
    THEN executeSteps([e EXCEPT !.waitingForInput = FALSE,
                                !.continueVisible = FALSE,
                                !.currentStepIndex = @ + 1])
    ELSE e

\* The click handler as it would be if the effect ran after the jump or the
\* continuation instead of before it.
choiceClick_EffectLast(e, option) ==
    IF option.effectFn.fn = "throw"
    THEN [e EXCEPT !.status = "raised"]
    ELSE LET e2 == [e EXCEPT !.choiceMenuHidden = TRUE]
             e3 == IF TruthyId(option.nodeId)
                   THEN jumpToNode(e2, option.nodeId)
                   ELSE executeSteps([e2 EXCEPT !.currentStepIndex = @ + 1])
         IN  IF option.effectFn.fn # ""
             THEN Logged(writeVariables(e3, callEffect(option.effectFn, e3)),
                         "effect", "", NullId)
             ELSE e3

\* The click handler as it would be if a null target resumed the walk
\* without moving the cursor past the choice.
choiceClick_NoIncrement(e, option) ==
    IF option.effectFn.fn = "throw"
    THEN [e EXCEPT !.status = "raised"]
    ELSE LET e1 == IF option.effectFn.fn # ""
                   THEN Logged(writeVariables(e, callEffect(option.effectFn, e)),
                               "effect", "", NullId)
                   ELSE e
             e2 == [e1 EXCEPT !.choiceMenuHidden = TRUE]
         IN  IF TruthyId(option.nodeId)
             THEN jumpToNode(e2, option.nodeId)
             ELSE executeSteps(e2)

\* The click handler showChoices attaches to the button of an option.
choiceClick(e, option) ==
    IF option.effectFn.fn = "throw"
    THEN [e EXCEPT !.status = "raised"]
    ELSE LET e1 == IF option.effectFn.fn # ""
                   THEN Logged(writeVariables(e, callEffect(option.effectFn, e)),
                               "effect", "", NullId)
                   ELSE e
             e2 == [e1 EXCEPT !.choiceMenuHidden = TRUE]
         IN  IF TruthyId(option.nodeId)
             THEN jumpToNode(e2, option.nodeId)
             ELSE executeSteps([e2 EXCEPT !.currentStepIndex = @ + 1])


(***************************************************************************)
(* The validator (validator.js).  A diagnostic is the object pushed to     *)
(* errors: its type, the template of its message, the name the template    *)
(* interpolates (subject) and its location.  The diagnostics form a bag:   *)
(* the order in which the keys of an object are visited is not modelled.   *)
(***************************************************************************)
\* The location strings: 'story.start', nodeId, `jump to "${nodeId}"`,
\* `${nodeId}[${i}]` and `${nodeId}[${i}].options[${optIdx}]`; NoIndex
\* stands for an index the string does not have.
NoIndex == 0 - 1
Location(kind, node, step, option) ==
    [kind |-> kind, node |-> node, step |-> step, option |-> option]
NoLocation == Location("", NullId, NoIndex, NoIndex)
AtStart == Location("story.start", NullId, NoIndex, NoIndex)
AtNode(nodeId) == Location("node", nodeId, NoIndex, NoIndex)
AtJump(nodeId) == Location("jump to", nodeId, NoIndex, NoIndex)
AtStep(nodeId, i) == Location("step", nodeId, i, NoIndex)
AtOption(nodeId, i, optIdx) == Location("option", nodeId, i, optIdx)

Diagnostic(type, message, subject, location) ==
    [type |-> type, message |-> message, subject |-> subject,
     location |-> location]

\* The running state of validateSteps and validateNodes: errors,
\* referencedNodeIds and (within one node) hasEnding.
\* raised is set when a TypeError leaves the function.
NoFindings ==
    [errors |-> EmptyBag, referenced |-> {}, hasEnding |-> FALSE,
     raised |-> FALSE]
\* story.<prop> is there
Has(doc, prop) == prop \notin doc.absent
\* A property read of undefined or null: the TypeError ends the validation.
Raise(acc) == [acc EXCEPT !.raised = TRUE]
\* errors.push(...)
Push(acc, type, message, subject, location) ==
    [acc EXCEPT !.errors =
        @ (+) SetToBag({Diagnostic(type, message, subject, location)})]
\* referencedNodeIds.add(nodeId)
Refer(acc, nodeId) == [acc EXCEPT !.referenced = @ \cup {nodeId}]
Ending(acc) == [acc EXCEPT !.hasEnding = TRUE]

\* validator.js resolveNode: the array at a dotted path, or null.
RECURSIVE validatorResolveFrom(_, _, _)
validatorResolveFrom(current, parts, i) ==
    IF i > Len(parts)
    THEN IF IsArray(current)
         THEN [ok |-> TRUE, steps |-> AsSteps(current)]
         ELSE [ok |-> FALSE, steps |-> <<>>]
    ELSE IF ~HasKey(current, parts[i])
         THEN [ok |-> FALSE, steps |-> <<>>]
         ELSE validatorResolveFrom(Prop(current, parts[i]), parts, i + 1)

\* resolveNode of the validator as it would be if it took the path for one
\* key and did not split it.
validatorResolveNode_WithoutSplit(nodes, nodeId) ==
    validatorResolveFrom(Group(nodes), <<nodeId>>, 1)

\* resolveNode(nodes, nodeId) of the validator.
validatorResolveNode(nodes, nodeId) ==
    validatorResolveFrom(Group(nodes), Split(nodeId), 1)

\* prefix ? `${prefix}.${key}` : key
FullId(prefix, key) ==
    IF prefix # <<>> THEN prefix \o <<".">> \o key ELSE key

\* collectNodeIds: the full ids of the arrays in the tree.
RECURSIVE collectNodeIds(_, _)
collectNodeIds(nodes, prefix) ==
    UNION { LET value == nodes[key]
                fullId == FullId(prefix, key)
            IN  IF value.kind = "leaf" THEN {fullId}
                ELSE IF value.kind = "group"
                     THEN collectNodeIds(value.children, fullId)
                     ELSE {}
            : key \in DOMAIN nodes }

\* Object.entries(nodes) of collectNodeIds reaches a null entry of the tree
\* (typeof null is 'object') and throws a TypeError.
RECURSIVE collectNodeIdsRaises(_)
collectNodeIdsRaises(nodes) ==
    \E key \in DOMAIN nodes :
        \/ nodes[key].kind = "null"
        \/ /\ nodes[key].kind = "group"
           /\ collectNodeIdsRaises(nodes[key].children)

\* new Set(Object.keys(story.characters || {}))
definedCharacters(doc) ==
    IF Has(doc, "characters") THEN DOMAIN doc.characters ELSE {}
\* new Set(Object.keys(story.places || {}))
definedPlaces(doc) ==
    IF Has(doc, "places") THEN DOMAIN doc.places ELSE {}

\* validateSteps, case StepType.background
validateBackground(acc, step, at, doc) ==
    IF ~Truthy(step.id)
    THEN Push(acc, "error", "background step missing id", NullId, at)
    ELSE IF step.id \notin definedPlaces(doc)
         THEN Push(acc, "error", "Background not defined in story.places",
                   Id(step.id), at)
         ELSE acc

\* validateSteps, case StepType.show_character
validateShowCharacter(acc, step, at, doc) ==
    LET a1 == IF ~Truthy(step.id)
              THEN Push(acc, "error", "show_character step missing id",
                        NullId, at)
              ELSE IF step.id \notin definedCharacters(doc)
                   THEN Push(acc, "error",
                             "Character not defined in story.characters",
                             Id(step.id), at)
                   ELSE IF ~Truthy(step.pose) THEN acc
                   ELSE IF ~Has(doc, "poses")
                        \* character.poses[poseName] with poses undefined
                        THEN Raise(acc)
                   ELSE IF step.pose \notin
                               DOMAIN doc.characters[step.id].poses
                        THEN Push(acc, "error",
                                  "Pose not defined for character",
                                  Id(step.pose), at)
                        ELSE acc
        a2 == IF ~Truthy(step.pose)
              THEN Push(a1, "warning", "show_character step missing pose",
                        NullId, at)
              ELSE a1
    IN  IF a1.raised THEN a1
        ELSE IF ~Truthy(step.position)
        THEN Push(a2, "warning", "show_character step missing position",
                  NullId, at)
        ELSE a2

\* validateSteps, case StepType.hide_character
validateHideCharacter(acc, step, at) ==
    IF ~Truthy(step.id)
    THEN Push(acc, "error", "hide_character step missing id", NullId, at)
    ELSE acc

\* validateSteps, case StepType.dialogue
validateDialogue(acc, step, at, doc) ==
    LET a1 == IF ~Truthy(step.who)
              THEN Push(acc, "error", "dialogue step missing who", NullId, at)
              ELSE IF step.who \notin definedCharacters(doc)
                   THEN Push(acc, "error",
                             "Character in dialogue not defined",
                             Id(step.who), at)
                   ELSE acc
    IN  IF ~Truthy(step.text)
        THEN Push(a1, "error", "dialogue step missing text", NullId, at)
        ELSE a1

\* validateSteps, case StepType.narration
validateNarration(acc, step, at) ==
    IF ~Truthy(step.text)
    THEN Push(acc, "error", "narration step missing text", NullId, at)
    ELSE acc

\* validateSteps, case StepType.set_variable
validateSetVariable(acc, step, at) ==
    LET a1 == IF ~Truthy(step.key)
              THEN Push(acc, "error", "set_variable step missing key",
                        NullId, at)
              ELSE acc
    IN  IF step.value = Undefined
        THEN Push(a1, "error", "set_variable step missing value", NullId, at)
        ELSE a1

\* validateSteps, case StepType.jump_to
validateJumpTo(acc, step, at) ==
    Ending(IF ~TruthyId(step.nodeId)
           THEN Push(acc, "error", "jump_to step missing nodeId", NullId, at)
           ELSE Refer(acc, step.nodeId))

\* The conditional_jump case as it would be without the lines that add
\* elseNodeId to referencedNodeIds.
validateConditionalJump_SkipsElse(acc, step, at) ==
    LET a1 == IF step.test.fn = ""
              THEN Push(acc, "error", "conditional_jump step missing test",
                        NullId, at)
              ELSE acc
        a2 == IF ~TruthyId(step.thenNodeId)
              THEN Push(a1, "error",
                        "conditional_jump step missing thenNodeId",
                        NullId, at)
              ELSE Refer(a1, step.thenNodeId)
    IN  Ending(a2)

\* validateSteps, case StepType.conditional_jump
validateConditionalJump(acc, step, at) ==
    LET a1 == IF step.test.fn = ""
              THEN Push(acc, "error", "conditional_jump step missing test",
                        NullId, at)
              ELSE acc
        a2 == IF ~TruthyId(step.thenNodeId)
              THEN Push(a1, "error",
                        "conditional_jump step missing thenNodeId",
                        NullId, at)
              ELSE Refer(a1, step.thenNodeId)
    IN  Ending(IF TruthyId(step.elseNodeId)
               THEN Refer(a2, step.elseNodeId)
               ELSE a2)

\* The forEach over step.options, from option optIdx on.
RECURSIVE validateOptions(_, _, _, _, _)
validateOptions(acc, options, optIdx, nodeId, i) ==
    IF optIdx >= Len(options) THEN acc
    ELSE LET option == options[optIdx + 1]
             a0 == Push(acc, "error", "choice option is not an array",
                        NullId, AtOption(nodeId, i, optIdx))
             a1 == IF ~Truthy(option.label)
                   THEN Push(acc, "error", "choice option missing label",
                             NullId, AtOption(nodeId, i, optIdx))
                   ELSE acc
             a2 == IF TruthyId(option.nodeId)
                   THEN Refer(a1, option.nodeId)
                   ELSE a1
         IN  validateOptions(IF option.array THEN a2 ELSE a0, options,
                             optIdx + 1, nodeId, i)

\* validateSteps, case StepType.choice (options is an array in every choice
\* step a builder makes)
validateChoice(acc, step, nodeId, i) ==
    LET at == AtStep(nodeId, i)
        a1 == IF ~Truthy(step.prompt)
              THEN Push(acc, "warning", "choice step missing prompt",
                        NullId, at)
              ELSE acc
        a2 == IF Len(step.options) = 0
              THEN Push(a1, "error", "choice step has no options", NullId, at)
              ELSE a1
    IN  Ending(validateOptions(a2, step.options, 0, nodeId, i))

\* The body of the loop of validateSteps for the step at index i.
validateStep(acc, step, nodeId, i, doc) ==
    LET at == AtStep(nodeId, i)
    IN  IF step = NullStep \/ ~Truthy(step.type)
        THEN Push(acc, "error", "Step missing required type", NullId, at)
        ELSE CASE step.type = "background" ->
                      validateBackground(acc, step, at, doc)
               [] step.type = "show_character" ->
                      validateShowCharacter(acc, step, at, doc)
               [] step.type = "hide_character" ->
                      validateHideCharacter(acc, step, at)
               [] step.type = "dialogue" ->
                      validateDialogue(acc, step, at, doc)
               [] step.type = "narration" -> validateNarration(acc, step, at)
               [] step.type = "set_variable" ->
                      validateSetVariable(acc, step, at)
               [] step.type = "jump_to" -> validateJumpTo(acc, step, at)
               [] step.type = "conditional_jump" ->
                      validateConditionalJump(acc, step, at)
               [] step.type = "choice" -> validateChoice(acc, step, nodeId, i)
               [] step.type = "end_story" -> Ending(acc)
               [] OTHER -> Push(acc, "error", "Unknown step type",
                                Id(step.type), at)

RECURSIVE validateStepsFrom(_, _, _, _, _)
validateStepsFrom(acc, steps, nodeId, i, doc) ==
    IF i >= Len(steps) \/ acc.raised THEN acc
    ELSE validateStepsFrom(validateStep(acc, steps[i + 1], nodeId, i, doc),
                           steps, nodeId, i + 1, doc)

\* validateSteps for the array of a node: what it adds to errors and to
\* referencedNodeIds.
validateSteps(acc0, steps, nodeId, doc) ==
    IF Len(steps) = 0
    THEN Push(acc0, "warning", "Node has no steps (empty)", nodeId,
              AtNode(nodeId))
    ELSE LET acc == validateStepsFrom([acc0 EXCEPT !.hasEnding = FALSE],
                                      steps, nodeId, 0, doc)
         IN  IF acc.raised THEN acc
             ELSE IF ~acc.hasEnding
             THEN Push(acc, "warning", "Node will stop abruptly", nodeId,
                       AtNode(nodeId))
             ELSE acc

\* validateNodes: the loop over the entries of nodes, keys being the ones
\* still to visit.
RECURSIVE validateNodes(_, _, _, _, _)
validateNodes(acc, nodes, keys, prefix, doc) ==
    IF keys = {} \/ acc.raised THEN acc
    ELSE LET key == CHOOSE k \in keys : TRUE
             value == nodes[key]
             fullId == FullId(prefix, key)
             a1 == IF value.kind = "leaf"
                   THEN validateSteps(acc, value.steps, fullId, doc)
                   ELSE IF value.kind = "group"
                        THEN validateNodes(acc, value.children,
                                           DOMAIN value.children, fullId,
                                           doc)
                        ELSE IF value.kind = "null"
                        \* typeof null is 'object': Object.entries(null)
                        THEN Raise(acc)
                        ELSE Push(acc, "error", "Node has invalid value",
                                  fullId, AtNode(fullId))
         IN  validateNodes(a1, nodes, keys \ {key}, prefix, doc)

\* validateStory: the test that the start node exists.
startErrors(doc) ==
    IF TruthyId(doc.start)
       /\ ~validatorResolveNode(doc.nodes, doc.start).ok
    THEN SetToBag({Diagnostic("error", "Start node does not exist",
                              doc.start, AtStart)})
    ELSE EmptyBag

\* The loop "referenced but undefined nodes" as it would be if it pushed
\* warnings.
danglingErrors_AsWarnings(referencedNodeIds, allNodeIds) ==
    SetToBag({ Diagnostic("warning", "Referenced node does not exist",
                          nodeId, AtJump(nodeId)) :
               nodeId \in referencedNodeIds \ allNodeIds })

\* validateStory: the loop "referenced but undefined nodes".
danglingErrors(referencedNodeIds, allNodeIds) ==
    SetToBag({ Diagnostic("error", "Referenced node does not exist", nodeId,
                          AtJump(nodeId)) :
               nodeId \in referencedNodeIds \ allNodeIds })

\* The loop "defined but unreachable nodes" as it would be without the
\* exemption of the start node.
unreachableWarnings_StartIncluded(allNodeIds, referencedNodeIds, start) ==
    SetToBag({ Diagnostic("warning",
                          "Node is defined but never referenced (unreachable)",
                          nodeId, AtNode(nodeId)) :
               nodeId \in allNodeIds \ referencedNodeIds })

\* validateStory: the loop "defined but unreachable nodes".
unreachableWarnings(allNodeIds, referencedNodeIds, start) ==
    SetToBag({ Diagnostic("warning",
                          "Node is defined but never referenced (unreachable)",
                          nodeId, AtNode(nodeId)) :
               nodeId \in { id \in allNodeIds :
                               id # start /\ id \notin referencedNodeIds } })

\* validateStory: errors is the array it returns; raised tells that a
\* TypeError left it instead, and errors is then what it had pushed so far.
validateStory(doc) ==
    LET missingStart ==
            IF ~TruthyId(doc.start)
            THEN SetToBag({Diagnostic("error", "Story missing start", NullId,
                                      NoLocation)})
            ELSE EmptyBag
        missingNodes ==
            SetToBag({Diagnostic("error", "Story missing nodes", NullId,
                                 NoLocation)})
        missingVariables ==
            IF ~Has(doc, "variables")
            THEN SetToBag({Diagnostic("warning", "Story missing variables",
                                      NullId, NoLocation)})
            ELSE EmptyBag
        checked == missingStart (+) missingVariables (+) startErrors(doc)
        allNodeIds == collectNodeIds(doc.nodes, <<>>)
        found == validateNodes(NoFindings, doc.nodes, DOMAIN doc.nodes,
                               <<>>, doc)
    IN  IF ~Has(doc, "nodes")
        THEN [errors |-> missingStart (+) missingNodes, raised |-> FALSE]
        ELSE IF collectNodeIdsRaises(doc.nodes)
        THEN [errors |-> checked, raised |-> TRUE]
        ELSE IF found.raised
        THEN [errors |-> checked (+) found.errors, raised |-> TRUE]
        ELSE [errors |->
                  checked (+) found.errors
                  (+) danglingErrors(found.referenced, allNodeIds)
                  (+) unreachableWarnings(allNodeIds, found.referenced,
                                          doc.start),
              raised |-> FALSE]


(***************************************************************************)
(* Story documents the engine is constructed with.                         *)
(***************************************************************************)
Characters ==
    "alice" :> [name |-> "Alice",
                poses |-> ("neutral" :> "alice/neutral.png")
                          @@ ("happy" :> "alice/happy.png")]
Places == "park" :> "backgrounds/park.png"
InitialVariables == [score |-> Num(0), color |-> Str("")]

PickColor ==
    choice("Pick a color:",
           <<Option("Red", NullId, SetEffect("color", Str("red"))),
             Option("Blue", NullId, SetEffect("color", Str("blue")))>>)
Respond ==
    choice("How do you respond?",
           <<Option("Be friendly", Dotted("Park", "WithAlice"),
                    AddEffect("score", 1)),
             Option("Be rude", Id("Lose"), AddEffect("score", -1)),
             Option("", Id("Win"), NoEffect),
             Option("Leave", Id("Win"), NoEffect),
             Option("Stay", NullId, NoEffect),
             Option("Shout", Id("Win"), ThrowEffect)>>)

\* The steps a generated Start node is made of.
StepPool ==
    { background("park"), background("nowhere"),
      showCharacter("alice", "happy", "left"), hideCharacter("alice"),
      dialogue("alice", "Hi"), dialogue("alice", ""),
      narration("A"), narration(""),
      setVariable("score", AddFn("score", 1)),
      setVariable("color", Str("red")),
      setVariable("score", ThrowFn),
      jumpTo(Id("Win")), jumpTo(Id("Nowhere")), jumpTo(Id("Park")),
      jumpTo(Dotted("Park", "WithAlice")),
      conditionalJump(GeTest("score", 1), Id("Win"), NullId),
      conditionalJump(GeTest("score", 1), Id("Win"), Id("Lose")),
      PickColor, Respond, choice("", <<>>),
      endStory, unknownStep }

\* The nodes every generated story has besides Start.
FixedNodes ==
    (Id("Win") :> Leaf(<<narration("You win"), endStory, narration("post")>>))
    @@ (Id("Lose") :> Leaf(<<setVariable("score", Num(0)),
                             narration("You lose")>>))
    @@ (Id("Park") :> Group(
          Id("WithAlice") :>
              Leaf(<<conditionalJump(GeTest("score", 1), Id("Win"), NullId),
                     dialogue("alice", "Nice day"),
                     jumpTo(Id("Start"))>>)))

\* A story document. absent names the properties the document does not
\* have ("start", "nodes", "variables", "characters", "places", and "poses"
\* for the poses map of every character); the field of an absent property
\* is not read.
StoryOf(start, nodes) ==
    [start |-> start, variables |-> InitialVariables, nodes |-> nodes,
     characters |-> Characters, places |-> Places, absent |-> {}]

\* Sequences of exactly n steps of the pool.
StepSeqs(n) == [1..n -> StepPool]

GenStories ==
    { StoryOf(Id("Start"), (Id("Start") :> Leaf(steps)) @@ FixedNodes) :
        steps \in StepSeqs(GenLen) }

\* Start: [narration(A), narration(B), endStory()]
LinearStory ==
    StoryOf(Id("Start"),
            Id("Start") :> Leaf(<<narration("A"), narration("B"), endStory>>))

\* A: [setVariable(score, s => s.variables.score + 5),
\*     conditionalJump(s => s.variables.score >= 5, Win, Lose)]
BranchStory ==
    StoryOf(Id("A"),
            (Id("A") :> Leaf(<<setVariable("score", AddFn("score", 5)),
                               conditionalJump(GeTest("score", 5), Id("Win"),
                                               Id("Lose"))>>))
            @@ FixedNodes)

\* a choice with null targets followed by narration(done)
NullChoiceStory ==
    StoryOf(Id("Start"),
            Id("Start") :> Leaf(<<PickColor, narration("done")>>))

\* a node that jumps to itself
SelfLoopStory ==
    StoryOf(Id("Start"),
            (Id("Start") :> Leaf(<<narration("A"), jumpTo(Id("Loop"))>>))
            @@ (Id("Loop") :> Leaf(<<jumpTo(Id("Loop"))>>)))

\* a start that names no node
BadStartStory == StoryOf(Id("Missing"), FixedNodes)

\* Stories the validator reports an error for and the engine is still
\* constructed with: one without start, one without nodes.
MissingStartStory ==
    [StoryOf(NullId, FixedNodes) EXCEPT !.absent = {"start"}]
MissingNodesStory ==
    [StoryOf(Id("Start"), <<>>) EXCEPT !.absent = {"nodes"}]

\* Start: [conditionalJump(s => s.variables.score >= 1, Win, Nowhere),
\*         narration(A)]: with score 0 the else branch is taken and names a
\* node the story does not have; Park, named by the second, is a group.
FailedBranchStory ==
    StoryOf(Id("Start"),
            (Id("Start") :> Leaf(<<conditionalJump(GeTest("score", 1),
                                                   Id("Win"), Id("Nowhere")),
                                   narration("A")>>))
            @@ FixedNodes)
FailedGroupBranchStory ==
    StoryOf(Id("Start"),
            (Id("Start") :> Leaf(<<conditionalJump(GeTest("score", 1),
                                                   Id("Win"), Id("Park")),
                                   narration("A")>>))
            @@ FixedNodes)

\* Steps that name a place, a character, a pose or a position the story
\* does not have.
LookupSteps ==
    {background("nowhere"), background("constructor"),
     showCharacter("bob", "happy", "right"),
     showCharacter("constructor", "happy", "right"),
     showCharacter("alice", "angry", "right"),
     showCharacter("alice", "happy", "top")}
\* Start: [background(park), showCharacter(alice, happy, left),
\*         setVariable(score, 1), <the steps>, narration(A)]
LookupStoryOf(steps) ==
    StoryOf(Id("Start"),
            Id("Start") :>
                Leaf(<<background("park"),
                       showCharacter("alice", "happy", "left"),
                       setVariable("score", Num(1))>>
                     \o steps \o <<narration("A")>>))
LookupStories == { LookupStoryOf(<<step>>) : step \in LookupSteps }

\* Start: [showCharacter(alice, happy, left), showCharacter(carol, neutral,
\*         center), showCharacter(alice, neutral, right),
\*         hideCharacter(<id>), narration(A)], carol being a second character
\* of the story.
StageStoryOf(id) ==
    [StoryOf(Id("Start"),
             Id("Start") :>
                 Leaf(<<showCharacter("alice", "happy", "left"),
                        showCharacter("carol", "neutral", "center"),
                        showCharacter("alice", "neutral", "right"),
                        hideCharacter(id),
                        narration("A")>>))
        EXCEPT !.characters =
            @ @@ ("carol" :> [name |-> "Carol",
                              poses |-> ("neutral" :> "carol/neutral.png")])]
StageStories == { StageStoryOf(id) : id \in {"alice", "carol", "bob"} }

Stories ==
    GenStories
    \cup {LinearStory, BranchStory, NullChoiceStory, SelfLoopStory,
          BadStartStory, MissingStartStory, MissingNodesStory,
          FailedBranchStory, FailedGroupBranchStory}
    \cup LookupStories \cup StageStories


(***************************************************************************)
(* The state machine: construction, then one action per input signal.      *)
(***************************************************************************)
NoOption == Option("", NullId, NoEffect)
NoStep == [node |-> NullId, idx |-> 0]

\* The engine's fields as the record the handlers work on.
Engine ==
    [story |-> story, currentNode |-> currentNode,
     currentSteps |-> currentSteps,
     currentStepIndex |-> currentStepIndex, variables |-> variables,
     variablesObject |-> variablesObject,
     waitingForInput |-> waitingForInput, choiceButtons |-> choiceButtons,
     choiceMenuHidden |-> choiceMenuHidden, buttonsOf |-> buttonsOf,
     visibleCharacters |-> visibleCharacters,
     backgroundImage |-> backgroundImage, speakerName |-> speakerName,
     dialogueText |-> dialogueText, continueVisible |-> continueVisible,
     log |-> <<>>, status |-> "ok", fuel |-> MaxWalk]

\* The constructor as it would be if this.state.variables were the story's
\* own variables object instead of a copy of it.
Constructed_SharesVariables(st) ==
    [story |-> st, currentNode |-> NullId, currentSteps |-> <<>>,
     currentStepIndex |-> 0,
     variables |-> st.variables, variablesObject |-> "story.variables",
     waitingForInput |-> FALSE,
     choiceButtons |-> <<>>, choiceMenuHidden |-> TRUE, buttonsOf |-> NoStep,
     visibleCharacters |-> [p \in Positions |-> ""],
     backgroundImage |-> "", speakerName |-> "", dialogueText |-> "",
     continueVisible |-> FALSE,
     log |-> <<>>, status |-> "ok", fuel |-> MaxWalk]

\* The constructor up to the call of init(): variables is a copy of the
\* story's, nothing is shown (index.html starts with the choice menu hidden).
Constructed(st) ==
    [story |-> st, currentNode |-> NullId, currentSteps |-> <<>>,
     currentStepIndex |-> 0,
     variables |-> st.variables, variablesObject |-> "copy",
     waitingForInput |-> FALSE,
     choiceButtons |-> <<>>, choiceMenuHidden |-> TRUE, buttonsOf |-> NoStep,
     visibleCharacters |-> [p \in Positions |-> ""],
     backgroundImage |-> "", speakerName |-> "", dialogueText |-> "",
     continueVisible |-> FALSE,
     log |-> <<>>, status |-> "ok", fuel |-> MaxWalk]

\* VisualNovelEngine.init: start the story. With this.story.start undefined
\* the nodeId.split('.') of resolveNode throws a TypeError.
init(e) ==
    IF ~Has(e.story, "start") THEN [e EXCEPT !.status = "raised"]
    ELSE jumpToNode(e, e.story.start)

\* Type of the step at the cursor ("" when the node is exhausted).
AtCursor(steps, idx) ==
    IF idx < Len(steps) THEN steps[idx + 1].type ELSE ""

\* What a signal found: the engine's control state before the handler ran.
Snapshot(e, m, en) ==
    [node |-> e.currentNode, idx |-> e.currentStepIndex,
     len |-> Len(e.currentSteps),
     atCursor |-> AtCursor(e.currentSteps, e.currentStepIndex),
     variables |-> e.variables, waiting |-> e.waitingForInput,
     menuHidden |-> e.choiceMenuHidden, buttonsOf |-> e.buttonsOf,
     mode |-> m, ended |-> en]

\* Where a walk stopped, read off the last entry of its log.
ModeAfter(e) ==
    IF e.status # "ok" THEN e.status
    ELSE LET ev == e.log[Len(e.log)]
         IN  CASE ev.ev = "node_complete" -> "Exhausted"
               [] ev.ev = "jump_failed" -> "Halted"
               [] ev.ev = "step" /\ ev.type \in {"dialogue", "narration"} ->
                      "AwaitingAdvance"
               [] ev.ev = "step" /\ ev.type = "choice" -> "AwaitingChoice"
               [] ev.ev = "step" /\ ev.type = "end_story" -> "Ended"
               [] OTHER -> "Running"

EndExecuted(e) ==
    \E i \in 1..Len(e.log) : e.log[i].ev = "step" /\ e.log[i].type = "end_story"

\* Number-valued variables stay within the model's range.
InBounds(e) ==
    \A k \in VarKeys :
        e.variables[k].t = "number" =>
            e.variables[k].num \in (0 - MaxScore)..MaxScore

\* The engine after a handler returned e.
Apply(e, op, option, pre) ==
    /\ InBounds(e)
    /\ currentNode' = e.currentNode
    /\ currentSteps' = e.currentSteps
    /\ currentStepIndex' = e.currentStepIndex
    /\ variables' = e.variables
    /\ variablesObject' = e.variablesObject
    /\ waitingForInput' = e.waitingForInput
    /\ choiceButtons' = e.choiceButtons
    /\ choiceMenuHidden' = e.choiceMenuHidden
    /\ buttonsOf' = e.buttonsOf
    /\ visibleCharacters' = e.visibleCharacters
    /\ backgroundImage' = e.backgroundImage
    /\ speakerName' = e.speakerName
    /\ dialogueText' = e.dialogueText
    /\ continueVisible' = e.continueVisible
    /\ log' = e.log
    /\ status' = e.status
    /\ last' = [op |-> op, option |-> option, pre |-> pre]
    /\ mode' = IF e.log = <<>> THEN pre.mode ELSE ModeAfter(e)
    /\ ended' = (pre.ended \/ EndExecuted(e))
    /\ story' = e.story
    /\ UNCHANGED <<validationErrors, resolved, calls>>

\* The engine's fields are those of the record e.
Holds(e) ==
    /\ story = e.story
    /\ currentNode = e.currentNode
    /\ currentSteps = e.currentSteps
    /\ currentStepIndex = e.currentStepIndex
    /\ variables = e.variables
    /\ variablesObject = e.variablesObject
    /\ waitingForInput = e.waitingForInput
    /\ choiceButtons = e.choiceButtons
    /\ choiceMenuHidden = e.choiceMenuHidden
    /\ buttonsOf = e.buttonsOf
    /\ visibleCharacters = e.visibleCharacters
    /\ backgroundImage = e.backgroundImage
    /\ speakerName = e.speakerName
    /\ dialogueText = e.dialogueText
    /\ continueVisible = e.continueVisible
    /\ log = e.log
    /\ status = e.status

\* No path has been resolved.
NotResolved ==
    [path |-> NullId,
     engine |-> [ok |-> FALSE, steps |-> <<>>, error |-> "",
                 failedAt |-> <<>>],
     validator |-> [ok |-> FALSE, steps |-> <<>>]]

\* new VisualNovelEngine(storyData): the constructor validates the story,
\* prints the diagnostics, builds the fields and calls init().
Init ==
    \E st \in Stories :
        \E e \in {init(Constructed(st))},
           pre \in {Snapshot(Constructed(st), "Idle", FALSE)} :
           /\ InBounds(e)
           /\ Holds(e)
           /\ last = [op |-> "construct", option |-> NoOption, pre |-> pre]
           /\ mode = IF e.log = <<>> /\ e.status = "ok" THEN "Idle"
                     ELSE ModeAfter(e)
           /\ ended = EndExecuted(e)
           /\ validationErrors = validateStory(st).errors
           /\ resolved = NotResolved
           /\ calls = {"validateStory"}

\* A click anywhere but on a choice button: the document's click listener
\* calls advance().
Advance ==
    /\ status # "diverged"
    /\ \E e \in {advance(Engine)} :
           Apply(e, "advance", NoOption, Snapshot(Engine, mode, ended))

\* A click on the i-th button of the choice menu while the menu is shown.
Choose ==
    /\ status # "diverged"
    /\ ~choiceMenuHidden
    /\ \E i \in 1..Len(choiceButtons) :
           \E e \in {choiceClick(Engine, choiceButtons[i])} :
               Apply(e, "choose", choiceButtons[i],
                     Snapshot(Engine, mode, ended))

Next == Advance \/ Choose

Spec == Init /\ [][Next]_vars


(***************************************************************************)
(* The walk step by step.  executeSteps with fuel for one step executes    *)
(* the step at the cursor and stops where its loop, or the loop of the     *)
(* jumpToNode the step called, would execute the next one (status          *)
(* "diverged": the walk is under way); a handler with no fuel stops where  *)
(* its walk would execute its first step.  No signal is handled while a    *)
(* walk is under way: a handler runs to completion before the next event   *)
(* is dispatched.                                                          *)
(***************************************************************************)
\* Start: [setVariable(score, s => s.variables.score + 1),
\*         conditionalJump(s => s.variables.score >= 3, Win, Start)]
CountingLoopStory ==
    StoryOf(Id("Start"),
            (Id("Start") :>
                Leaf(<<setVariable("score", AddFn("score", 1)),
                       conditionalJump(GeTest("score", 3), Id("Win"),
                                       Id("Start"))>>))
            @@ FixedNodes)

\* Start: [narration(A), jumpTo(Ping)]; Ping: [jumpTo(Pong)];
\* Pong: [jumpTo(Ping)]
PingPongStory ==
    StoryOf(Id("Start"),
            (Id("Start") :> Leaf(<<narration("A"), jumpTo(Id("Ping"))>>))
            @@ (Id("Ping") :> Leaf(<<jumpTo(Id("Pong"))>>))
            @@ (Id("Pong") :> Leaf(<<jumpTo(Id("Ping"))>>)))

\* The stories walked step by step: a Start of one step of the pool, alone
\* or before a jump, a branch or a choice, and the stories with a name.
WalkTails ==
    {<<>>, <<jumpTo(Dotted("Park", "WithAlice"))>>,
     <<conditionalJump(GeTest("score", 1), Id("Win"), Id("Lose"))>>,
     <<PickColor>>}
WalkStories ==
    { StoryOf(Id("Start"),
              (Id("Start") :> Leaf(<<step>> \o tail)) @@ FixedNodes) :
        step \in StepPool, tail \in WalkTails }
    \cup {LinearStory, BranchStory, NullChoiceStory, SelfLoopStory,
          BadStartStory, MissingStartStory, MissingNodesStory,
          FailedBranchStory, FailedGroupBranchStory,
          CountingLoopStory, PingPongStory}
    \cup LookupStories \cup StageStories

\* new VisualNovelEngine(storyData), up to the first step of the walk that
\* init() starts.
WalkInit ==
    \E st \in WalkStories :
        \E e \in {init([Constructed(st) EXCEPT !.fuel = 0])},
           pre \in {Snapshot(Constructed(st), "Idle", FALSE)} :
           /\ InBounds(e)
           /\ Holds(e)
           /\ last = [op |-> "construct", option |-> NoOption, pre |-> pre]
           /\ mode = IF e.log = <<>> /\ e.status = "ok" THEN "Idle"
                     ELSE ModeAfter(e)
           /\ ended = EndExecuted(e)
           /\ validationErrors = validateStory(st).errors
           /\ resolved = NotResolved
           /\ calls = {"validateStory"}

\* One turn of the loop of executeSteps in the walk under way.
WalkStep ==
    /\ status = "diverged"
    /\ \E e \in {executeSteps([Engine EXCEPT !.fuel = 1])} :
           Apply(e, "step", NoOption, Snapshot(Engine, mode, ended))

\* The click listener of the document, up to the first step of the walk
\* advance() resumes.
WalkAdvance ==
    /\ status # "diverged"
    /\ \E e \in {advance([Engine EXCEPT !.fuel = 0])} :
           Apply(e, "advance", NoOption, Snapshot(Engine, mode, ended))

\* The click handler of the i-th button, up to the first step of the walk
\* it starts or resumes.
WalkChoose ==
    /\ status # "diverged"
    /\ ~choiceMenuHidden
    /\ \E i \in 1..Len(choiceButtons) :
           \E e \in {choiceClick([Engine EXCEPT !.fuel = 0],
                                 choiceButtons[i])} :
               Apply(e, "choose", choiceButtons[i],
                     Snapshot(Engine, mode, ended))

WalkNext == WalkStep \/ WalkAdvance \/ WalkChoose

\* A walk under way takes its next turn: nothing but the walk itself runs
\* between two turns of the loop.
WalkSpec == WalkInit /\ [][WalkNext]_vars /\ WF_vars(WalkStep)


(***************************************************************************)
(* The validator and the two resolvers as functions of a story document:   *)
(* a document is loaded, validateStory is called on it and a path is       *)
(* resolved against its node tree.  No engine is started: its fields stay  *)
(* as the constructor builds them.                                         *)
(***************************************************************************)
\* The steps the node A of a document is made of.
DocPool ==
    { narration("n"),
      jumpTo(Id("B")),
      jumpTo(Id("G")),
      jumpTo(Id("Missing")),
      conditionalJump(GeTest("score", 1), Dotted("G", "X"), Id("Elsewhere")),
      choice("Where to?", <<Option("In", Id("Nowhere"), NoEffect),
                            Option("Stay", NullId, NoEffect)>>),
      choice("Go on?", <<Option("Yes", Id("B"), AddEffect("score", 1))>>),
      endStory }

\* start: A; A: the given steps; B jumps to itself; C jumps to D; D ends
\* the story; the group G holds X, which jumps to C.
Document(steps) ==
    StoryOf(Id("A"),
            (Id("A") :> Leaf(steps))
            @@ (Id("B") :> Leaf(<<jumpTo(Id("B"))>>))
            @@ (Id("C") :> Leaf(<<narration("c"), jumpTo(Id("D"))>>))
            @@ (Id("D") :> Leaf(<<endStory>>))
            @@ (Id("G") :> Group(Id("X") :>
                    Leaf(<<narration("x"), jumpTo(Id("C"))>>))))

\* Documents that are not of the Story type: a tree entry that is null, a
\* tree entry that is a number, characters without a poses map, no start,
\* no nodes, and nothing but start and nodes.
NullEntryDocument ==
    [Document(<<endStory>>) EXCEPT !.nodes = @ @@ (Id("N") :> NullEntry)]
NumberEntryDocument ==
    [Document(<<endStory>>) EXCEPT !.nodes = @ @@ (Id("N") :> NumberValue)]
NoPosesDocument ==
    [Document(<<showCharacter("alice", "happy", "left"), endStory>>)
        EXCEPT !.absent = {"poses"}]
MissingStartDocument ==
    [Document(<<endStory>>) EXCEPT !.start = NullId, !.absent = {"start"}]
MissingNodesDocument ==
    [Document(<<>>) EXCEPT !.nodes = <<>>, !.absent = {"nodes"}]
BareDocument ==
    [Document(<<background("park"), dialogue("alice", "Hi"), endStory>>)
        EXCEPT !.variables = [k \in DOMAIN InitialVariables |-> Undefined],
               !.absent = {"variables", "characters", "places"}]
\* The document with A: [endStory] without the top-level fields named.
WithoutFields(missing) ==
    [Document(<<endStory>>) EXCEPT
        !.start = IF "start" \in missing THEN NullId ELSE @,
        !.nodes = IF "nodes" \in missing THEN <<>> ELSE @,
        !.variables = IF "variables" \in missing
                      THEN [k \in DOMAIN InitialVariables |-> Undefined]
                      ELSE @,
        !.absent = missing]
FieldDocuments ==
    { WithoutFields(missing) : missing \in SUBSET {"start", "nodes", "variables"} }
\* Documents whose node A is one conditional_jump step: without test,
\* without thenNodeId, without either, and with a missing node as then
\* target and G.X, which nothing else names, as else target.
ConditionalJumpDocuments ==
    { Document(<<step>>) :
        step \in {conditionalJump(NoTest, Id("B"), NullId),
                  conditionalJump(GeTest("score", 1), NullId,
                                  Dotted("G", "X")),
                  conditionalJump(NoTest, NullId, NullId),
                  conditionalJump(GeTest("score", 1), Id("Missing"),
                                  Dotted("G", "X"))} }

\* Documents whose node A is one choice step: an option that is the label
\* alone, one with a fourth element, one without label, no options, and
\* no prompt with a string and an empty array among the options.
ChoiceDocuments ==
    { Document(<<step>>) :
        step \in {choice("Go?", <<LabelOnlyOption("Go"),
                                  Option("Yes", Dotted("G", "X"), NoEffect)>>),
                  choice("Go?", <<FourElementOption("Go", Id("Missing"),
                                                    NoEffect)>>),
                  choice("Go?", <<Option("", Id("B"), NoEffect)>>),
                  choice("Go?", <<>>),
                  choice("", <<Option("Yes", NullId, NoEffect), StringOption,
                               EmptyOption>>)} }

MalformedDocuments ==
    {NullEntryDocument, NumberEntryDocument, NoPosesDocument,
     MissingStartDocument, MissingNodesDocument, BareDocument}
    \cup FieldDocuments

\* Documents that differ in start only: a leaf under a group, a group, a
\* name the tree does not have, a name the group does not have, and the
\* options of the first step of A.
StartPaths ==
    {Dotted("G", "X"), Id("G"), Id("Missing"), Dotted("G", "Missing"),
     Join(<<Id("A"), Id("0"), Id("options")>>)}
StartDocuments ==
    { [Document(<<choice("Go on?", <<Option("Yes", Id("B"), NoEffect)>>)>>)
          EXCEPT !.start = start] : start \in StartPaths }

\* A document with a top-level node whose name contains a dot:
\* nodes['P.Q'] = [endStory()].
DottedKeyDocument ==
    [Document(<<endStory>>)
        EXCEPT !.nodes = @ @@ (Dotted("P", "Q") :> Leaf(<<endStory>>))]

Documents ==
    { Document(steps) : steps \in UNION { [1..n -> DocPool] : n \in 0..GenLen } }
    \cup MalformedDocuments \cup StartDocuments
    \cup ConditionalJumpDocuments \cup ChoiceDocuments
    \cup {DottedKeyDocument}

\* The paths resolved: up to three segments, what is under the options of a
\* first step, and the name that contains a dot.
Segments == {Id("A"), Id("G"), Id("X"), Id("0"), Id("options")}
Paths ==
    { Join(<<a>>) : a \in Segments }
    \cup { Join(<<a, b>>) : a \in Segments, b \in Segments }
    \cup { Join(<<a, b, c>>) : a \in Segments, b \in Segments, c \in Segments }
    \cup { Join(<<a, Id("0"), Id("options"), d>>) :
              a \in Segments, d \in Segments }
    \cup {Dotted("P", "Q")}

Load ==
    \E doc \in Documents :
        \E e \in {Constructed(doc)} :
           /\ Holds(e)
           /\ last = [op |-> "load", option |-> NoOption,
                      pre |-> Snapshot(e, "Idle", FALSE)]
           /\ mode = "Idle"
           /\ ended = FALSE
           /\ validationErrors = EmptyBag
           /\ resolved = NotResolved
           /\ calls = {}

EngineFields ==
    <<story, currentNode, currentSteps, currentStepIndex, variables,
      variablesObject, waitingForInput, choiceButtons, choiceMenuHidden,
      buttonsOf, visibleCharacters, backgroundImage, speakerName,
      dialogueText, continueVisible, log, last, mode, ended>>

\* validateStory as it would be if it gave a story without variables an
\* empty variables object.
Validate_DefaultsVariables ==
    /\ "validateStory" \notin calls
    /\ \E doc \in {story} :
           \E r \in {validateStory(doc)} :
               /\ validationErrors' = r.errors
               /\ status' = IF r.raised THEN "raised" ELSE "ok"
    /\ story' = [story EXCEPT !.absent = @ \ {"variables"}]
    /\ calls' = calls \cup {"validateStory"}
    /\ UNCHANGED <<currentNode, currentSteps, currentStepIndex, variables,
                   variablesObject, waitingForInput, choiceButtons,
                   choiceMenuHidden, buttonsOf, visibleCharacters,
                   backgroundImage, speakerName, dialogueText,
                   continueVisible, log, last, mode, ended, resolved>>

\* validateStory(story): what it returned, or that it raised.
Validate ==
    /\ "validateStory" \notin calls
    /\ \E doc \in {story} :
           \E r \in {validateStory(doc)} :
               /\ validationErrors' = r.errors
               /\ status' = IF r.raised THEN "raised" ELSE "ok"
    /\ calls' = calls \cup {"validateStory"}
    /\ UNCHANGED <<EngineFields, resolved>>

\* resolveNode(path) of the engine, with what it logs when it fails, and
\* resolveNode(nodes, path) of the validator, for one path.
Resolve ==
    /\ "resolveNode" \notin calls
    /\ \E path \in Paths, doc \in {story} :
           resolved' = [path |-> path,
                        engine |-> resolveNode(doc, path),
                        validator |-> validatorResolveNode(doc.nodes, path)]
    /\ calls' = calls \cup {"resolveNode"}
    /\ UNCHANGED <<EngineFields, status, validationErrors>>

ValidatorNext == Validate \/ Resolve

ValidatorSpec == Load /\ [][ValidatorNext]_vars


(***************************************************************************)
(* Properties of the resume signals.                                       *)
(***************************************************************************)
\* Node, cursor and variables are as the last signal found them.
ControlUnchanged ==
    /\ currentNode = last.pre.node
    /\ currentStepIndex = last.pre.idx
    /\ variables = last.pre.variables

\* The last handler executed no step.
NoStepExecuted == \A i \in 1..Len(log) : log[i].ev # "step"

\* The last signal found the engine suspended on the choice step its
\* buttons were made for.
FoundAwaitingOwnChoice ==
    /\ last.pre.mode = "AwaitingChoice"
    /\ last.pre.buttonsOf = [node |-> last.pre.node, idx |-> last.pre.idx]

\* C1: advance() is a no-op unless the engine is suspended on a dialogue or
\* narration step: node, cursor and variables stay as they were, no step is
\* executed and the engine stays where it was suspended (a pending choice
\* stays pending).
C1_AdvanceOnlyWhenAwaitingAdvance ==
    (last.op = "advance" /\ last.pre.mode # "AwaitingAdvance") =>
        /\ ControlUnchanged
        /\ NoStepExecuted
        /\ mode = last.pre.mode

\* C2: once an end_story step has executed, every later advance() or
\* choose() changes neither node, cursor nor variables and executes no step.
C2_TerminalIdempotence ==
    (last.op \in {"advance", "choose"} /\ last.pre.ended) =>
        /\ ControlUnchanged
        /\ NoStepExecuted

\* C3: the cursor is always within 0 .. length of the current step sequence.
C3_CursorInRange ==
    currentStepIndex \in 0..Len(currentSteps)

\* C4: choosing an option changes variables, node or cursor only while the
\* engine is suspended at the choice step that offered the option.
C4_ChooseOnlyWhenAwaitingChoice ==
    (last.op = "choose" /\ ~FoundAwaitingOwnChoice) => ControlUnchanged


(***************************************************************************)
(* Properties of jumps and of the steps that transfer control.             *)
(***************************************************************************)
\* The step sequence the story has at a node id, and the step of it a log
\* entry was made at.
StepsOf(nodeId) == resolveNode(story, nodeId).steps
StepAt(ev) == StepsOf(ev.node)[ev.idx + 1]

\* The log entries of the last handler that are jumps made.
JumpsMade == {i \in 1..Len(log) : log[i].ev = "jump"}

\* C5: every successful jump makes the target the current node with its
\* step sequence and the cursor at 0, and what runs next is the target's
\* first step (or the target is empty and complete at once).
C5_JumpResetsCursor ==
    /\ \A i \in JumpsMade :
          /\ log[i].node = log[i].target
          /\ log[i].idx = 0
          /\ i < Len(log) \/ status = "diverged"
          /\ i < Len(log) =>
                /\ log[i + 1].ev \in {"step", "node_complete"}
                /\ log[i + 1].node = log[i].target
                /\ log[i + 1].idx = 0
                /\ log[i + 1].ev = "step" =>
                      log[i + 1].type = StepsOf(log[i].target)[1].type
                /\ log[i + 1].ev = "node_complete" =>
                      StepsOf(log[i].target) = <<>>
    /\ currentNode # NullId =>
          /\ resolveNode(story, currentNode).ok
          /\ currentSteps = StepsOf(currentNode)

\* A choice made at a cursor past 0 jumped to its target, whose first step, a
\* conditional jump, jumped again, and the walk suspended at cursor 0.
C5_Witness ==
    /\ last.op = "choose"
    /\ last.pre.idx > 0
    /\ \E i \in JumpsMade, j \in JumpsMade :
          /\ i < j
          /\ log[j - 1].ev = "step"
          /\ log[j - 1].type = "conditional_jump"
    /\ currentStepIndex = 0
    /\ mode = "AwaitingAdvance"

\* The last signal chose an option that has an effect function which returns.
ChoseWithEffect ==
    /\ last.op = "choose"
    /\ last.option.effectFn.fn \notin {"", "throw"}

\* The variables the chosen option's effect makes of those the signal found.
EffectResult ==
    callEffect(last.option.effectFn, [variables |-> last.pre.variables])

\* C6: when an option with an effect and a target is chosen, the effect runs
\* first, on the variables as the choice found them; the jump is resolved
\* and made after it, and the first step of the target sees the variables
\* the effect left.
C6_EffectBeforeJump ==
    (ChoseWithEffect /\ TruthyId(last.option.nodeId)) =>
        /\ Len(log) >= 2
        /\ log[1].ev = "effect"
        /\ log[1].variables = EffectResult
        /\ log[1].node = last.pre.node
        /\ log[1].idx = last.pre.idx
        /\ log[2].ev \in {"jump", "jump_failed"}
        /\ log[2].target = last.option.nodeId
        /\ log[2].variables = EffectResult
        /\ (Len(log) >= 3 /\ log[3].ev = "step") =>
              log[3].variables = EffectResult

\* With score 0, "Be friendly" (score += 1, to Park.WithAlice) was chosen;
\* the conditional jump that opens Park.WithAlice saw score >= 1 and went on
\* to Win.
C6_Witness ==
    /\ ChoseWithEffect
    /\ last.option.nodeId = Dotted("Park", "WithAlice")
    /\ last.pre.variables.score = Num(0)
    /\ FoundAwaitingOwnChoice
    /\ variables.score = Num(1)
    /\ currentNode = Id("Win")

\* C7: choosing an option whose target is null, at the choice step that
\* offered it, runs the effect, keeps the node, and resumes the walk at the
\* step after the choice: that step is the next one executed.
C7_NullTargetContinues ==
    (/\ last.op = "choose"
     /\ FoundAwaitingOwnChoice
     /\ last.option.nodeId = NullId
     /\ last.option.effectFn.fn # "throw") =>
        LET first == IF last.option.effectFn.fn = "" THEN 1 ELSE 2
        IN  /\ last.option.effectFn.fn # "" =>
                  /\ log[1].ev = "effect"
                  /\ log[1].variables = EffectResult
            /\ Len(log) >= first
            /\ log[first].ev \in {"step", "node_complete"}
            /\ log[first].node = last.pre.node
            /\ log[first].idx = last.pre.idx + 1
            /\ log[first].ev = "step" <=> last.pre.idx + 1 < last.pre.len
            /\ log[first].variables =
                  IF last.option.effectFn.fn = "" THEN last.pre.variables
                  ELSE EffectResult
            /\ (status = "ok" /\ JumpsMade = {}) =>
                  currentNode = last.pre.node

\* "Red" of the color choice was chosen at cursor 0: color is red and the
\* narration after the choice is shown, in the same node.
C7_Witness ==
    /\ last.op = "choose"
    /\ FoundAwaitingOwnChoice
    /\ last.option.label = "Red"
    /\ last.option.nodeId = NullId
    /\ variables.color = Str("red")
    /\ currentNode = Id("Start")
    /\ currentStepIndex = 1
    /\ dialogueText = "done"

\* The log entries that are executions of a conditional_jump step.
ConditionalJumps ==
    {i \in 1..Len(log) :
        log[i].ev = "step" /\ log[i].type = "conditional_jump"}

\* The predicate of the conditional_jump of entry i, on the variables the
\* step found.
TestAt(i) ==
    callTest(StepAt(log[i]).test, [variables |-> log[i].variables])

\* C8: a conditional_jump whose predicate is false and that has no else
\* target does not suspend and changes neither node nor variables: the
\* cursor moves on by one and the walk goes on there, in the same call.
C8_ConditionalFallthrough ==
    \A i \in ConditionalJumps :
        (~TestAt(i) /\ ~TruthyId(StepAt(log[i]).elseNodeId)) =>
            /\ i < Len(log) \/ status = "diverged"
            /\ i < Len(log) =>
                  /\ log[i + 1].ev \in {"step", "node_complete"}
                  /\ log[i + 1].node = log[i].node
                  /\ log[i + 1].idx = log[i].idx + 1
                  /\ log[i + 1].variables = log[i].variables

\* A conditional jump without else target found its predicate false and the
\* next step of the same node was executed in the same walk.
C8_Witness ==
    \E i \in ConditionalJumps :
        /\ ~TestAt(i)
        /\ ~TruthyId(StepAt(log[i]).elseNodeId)
        /\ i < Len(log)
        /\ log[i + 1].ev = "step"
        /\ log[i + 1].idx = log[i].idx + 1

\* C9: a conditional_jump transfers to thenNodeId when its predicate is true
\* of the current variables and to elseNodeId when it is false and
\* elseNodeId is set, never the other way round.
C9_ConditionalJumpBranches ==
    \A i \in ConditionalJumps :
        /\ i < Len(log) \/ status = "diverged"
        /\ i < Len(log) =>
              /\ (TestAt(i) /\ TruthyId(StepAt(log[i]).thenNodeId)) =>
                    /\ log[i + 1].ev \in {"jump", "jump_failed"}
                    /\ log[i + 1].target = StepAt(log[i]).thenNodeId
              /\ (~TestAt(i) /\ TruthyId(StepAt(log[i]).elseNodeId)) =>
                    /\ log[i + 1].ev \in {"jump", "jump_failed"}
                    /\ log[i + 1].target = StepAt(log[i]).elseNodeId
              /\ log[i + 1].ev \in {"jump", "jump_failed"} =>
                    log[i + 1].target =
                        IF TestAt(i) THEN StepAt(log[i]).thenNodeId
                        ELSE StepAt(log[i]).elseNodeId

\* Node A set score to 5 and its conditional jump (score >= 5, Win, Lose)
\* went to Win.
C9_Witness ==
    /\ story = BranchStory
    /\ last.op = "construct"
    /\ variables.score = Num(5)
    /\ currentNode = Id("Win")
    /\ \E i \in ConditionalJumps : TestAt(i) /\ log[i + 1].ev = "jump"

\* C10: after a dialogue or narration step was executed the walk is
\* suspended at that step and advance() is accepted; the accepted advance()
\* resumes the walk at the following step.
C10_DialogueAwaitsAdvance ==
    /\ mode = "AwaitingAdvance" =>
          /\ waitingForInput
          /\ AtCursor(currentSteps, currentStepIndex)
                \in {"dialogue", "narration"}
    /\ (last.op = "advance" /\ last.pre.mode = "AwaitingAdvance") =>
          /\ Len(log) >= 1
          /\ log[1].ev \in {"step", "node_complete"}
          /\ log[1].node = last.pre.node
          /\ log[1].idx = last.pre.idx + 1


(***************************************************************************)
(* Properties of set_variable and of exceptions.                           *)
(***************************************************************************)
\* The set_variable steps the last handler call executed.
SetVariableSteps ==
    {i \in 1..Len(log) : log[i].ev = "step" /\ log[i].type = "set_variable"}

\* What a set_variable step has to store, given the variables it found.
ExpectedValue(step, old) ==
    IF step.value.t = "function"
    THEN IF old[step.value.key].t = "number"
         THEN Num(old[step.value.key].num + step.value.num)
         ELSE NaN
    ELSE step.value

\* The variables seen by the j-th event of the log, and after the last one.
VariablesAt(j) == IF j <= Len(log) THEN log[j].variables ELSE variables

\* C11: a set_variable step stores the result of calling a compute function
\* with the current state, or the literal value, and every later step of the
\* walk sees the new value until the key is set again; the story
\* A: [setVariable(score, s => s.variables.score + 5),
\* conditionalJump(score >= 5, Win, Lose)] is in node Win with score 5.
C11_SetVariableStores ==
    /\ \A i \in SetVariableSteps :
           LET step == StepAt(log[i])
               stored == ExpectedValue(step, log[i].variables)
           IN  (Truthy(step.key) /\ step.value.fn # "throw") =>
                   \A j \in (i + 1)..(Len(log) + 1) :
                       (\A m \in (i + 1)..(j - 1) :
                            m \in SetVariableSteps =>
                                StepAt(log[m]).key # step.key)
                       => VariablesAt(j)[step.key] = stored
    /\ story = BranchStory =>
           currentNode = Id("Win") /\ variables.score = Num(5)

\* A walk computed the score from the old one and a later conditional jump
\* of the same walk took the branch the new value selects.
C11_Witness ==
    /\ story = BranchStory
    /\ last.op = "construct"
    /\ Len(log) >= 4
    /\ log[2].type = "set_variable" /\ log[2].variables.score = Num(0)
    /\ log[3].type = "conditional_jump" /\ log[3].variables.score = Num(5)
    /\ log[4].ev = "jump" /\ log[4].target = Id("Win")

\* C12: an exception raised by a compute function of set_variable or by the
\* effect of a chosen option reaches the caller of start, advance or choose:
\* the walk ends at the throwing step with the variable unassigned, and a
\* choice whose effect throws neither jumps nor moves the cursor.
C12_ExceptionsPropagate ==
    /\ \A i \in SetVariableSteps :
           LET step == StepAt(log[i])
           IN  (Truthy(step.key) /\ step.value.t = "function"
                   /\ step.value.fn = "throw") =>
                   /\ status = "raised"
                   /\ i = Len(log)
                   /\ variables = log[i].variables
                   /\ currentNode = log[i].node
                   /\ currentStepIndex = log[i].idx
    /\ (last.op = "choose" /\ last.option.effectFn.fn = "throw") =>
           /\ status = "raised"
           /\ log = <<>>
           /\ ControlUnchanged
           /\ variables = last.pre.variables
           /\ choiceMenuHidden = last.pre.menuHidden

\* A compute function threw during an advance, and then the effect of a
\* chosen option threw.
C12_Witness ==
    /\ last.op = "choose"
    /\ last.option.effectFn.fn = "throw"
    /\ status = "raised"
    /\ last.pre.mode = "raised"
    /\ last.pre.atCursor = "set_variable"
    /\ currentSteps[currentStepIndex + 1].value.fn = "throw"

\* C13: the engine works on a copy of the story's variables: whatever
\* set_variable steps and effects have run, the story document's own
\* variables are the ones it was loaded with.
C13_StoryVariablesUntouched == story.variables = InitialVariables

\* A choice ran an effect and the walk it resumed ran a set_variable step,
\* and the engine's variables differ from the story's.
C13_Witness ==
    /\ last.op = "choose"
    /\ \E i \in 1..Len(log) : log[i].ev = "effect"
    /\ SetVariableSteps # {}
    /\ variables # story.variables


(***************************************************************************)
(* Properties of the cursor.                                               *)
(***************************************************************************)
\* C14: within one node and absent a jump, an accepted advance strictly
\* increases the cursor, by 1 for each step it executes (the steps executed
\* are the ones at the following positions, in order), and neither an
\* advance nor a choice decreases the cursor.
C14_CursorMonotone ==
    (last.op \in {"advance", "choose"} /\ JumpsMade = {}) =>
        /\ currentNode = last.pre.node
        /\ currentStepIndex >= last.pre.idx
        /\ (last.op = "advance" /\ last.pre.waiting) =>
               /\ currentStepIndex > last.pre.idx
               /\ Len(log) >= 1
               /\ \A i \in 1..Len(log) :
                      /\ log[i].ev \in {"step", "node_complete"} =>
                             log[i].idx = last.pre.idx + i
                      /\ log[i].ev # "step" => i = Len(log)
               /\ currentStepIndex = log[Len(log)].idx

\* An accepted advance executed the next step, which did not suspend, and
\* went on to the position after it.
C14_Witness ==
    /\ last.op = "advance"
    /\ last.pre.waiting
    /\ JumpsMade = {}
    /\ Len(log) = 2
    /\ log[1].ev = "step"
    /\ currentStepIndex = last.pre.idx + 2

\* The last handler call executed exactly the step of the given type at the
\* given position, and nothing else.
ExecutedOnly(type, idx) ==
    /\ Len(log) = 1
    /\ log[1].ev = "step" /\ log[1].type = type /\ log[1].idx = idx

\* C15: for Start: [narration(A), narration(B), endStory()] construction
\* executes narration(A) and suspends awaiting advance at cursor 0, the
\* first advance executes narration(B) and suspends at cursor 1, the second
\* executes endStory() and the engine is ended; nothing else can happen.
C15_LinearStoryOrder ==
    story = LinearStory =>
        /\ currentNode = Id("Start")
        /\ \/ /\ last.op = "construct"
              /\ Len(log) = 2
              /\ log[1].ev = "jump" /\ log[1].target = Id("Start")
              /\ log[2].ev = "step" /\ log[2].type = "narration"
              /\ log[2].idx = 0
              /\ currentStepIndex = 0 /\ dialogueText = "A"
              /\ mode = "AwaitingAdvance" /\ waitingForInput /\ ~ended
           \/ /\ last.op = "advance" /\ last.pre.idx = 0
              /\ ExecutedOnly("narration", 1)
              /\ currentStepIndex = 1 /\ dialogueText = "B"
              /\ mode = "AwaitingAdvance" /\ waitingForInput /\ ~ended
           \/ /\ last.op = "advance" /\ last.pre.idx = 1
              /\ ExecutedOnly("end_story", 2)
              /\ currentStepIndex = 2
              /\ mode = "Ended" /\ ~waitingForInput /\ ended
           \/ /\ last.op = "advance" /\ last.pre.idx = 2
              /\ log = <<>>
              /\ currentStepIndex = 2
              /\ mode = "Ended" /\ ~waitingForInput /\ ended

\* The second advance has executed endStory().
C15_Witness ==
    /\ story = LinearStory
    /\ last.op = "advance" /\ last.pre.idx = 1 /\ last.pre.waiting
    /\ ExecutedOnly("end_story", 2)
    /\ ended


(***************************************************************************)
(* Properties of the resolvers and of the validator.                       *)
(***************************************************************************)
\* The leaves of a node tree, each with the keys that lead to it from the
\* root.
RECURSIVE LeavesUnder(_, _)
LeavesUnder(nodes, keys) ==
    UNION { IF nodes[k].kind = "leaf"
            THEN {[keys |-> Append(keys, k), steps |-> nodes[k].steps]}
            ELSE LeavesUnder(nodes[k].children, Append(keys, k))
            : k \in DOMAIN nodes }
Leaves == LeavesUnder(story.nodes, <<>>)
LeafPaths == { Join(l.keys) : l \in Leaves }

\* C16: both resolveNode return the step sequence of a path exactly when
\* the segments of the path, walked from the root, lead to a leaf of the
\* node tree, and fail otherwise (a segment is absent, or the walk ends in
\* a group).
C16_ResolveExactlyLeaves ==
    "resolveNode" \in calls =>
        LET reached == { l \in Leaves : l.keys = Split(resolved.path) }
        IN  /\ resolved.engine.ok <=> reached # {}
            /\ resolved.validator.ok <=> reached # {}
            /\ \A l \in reached :
                   /\ resolved.engine.steps = l.steps
                   /\ resolved.validator.steps = l.steps

\* The node ids a step names as targets.
TargetsOf(step) ==
    (CASE step.type = "jump_to" -> {step.nodeId}
       [] step.type = "conditional_jump" ->
              {step.thenNodeId, step.elseNodeId}
       [] step.type = "choice" ->
              { step.options[j].nodeId : j \in 1..Len(step.options) }
       [] OTHER -> {}) \ {NullId}
TargetsIn(steps) == UNION { TargetsOf(steps[i]) : i \in 1..Len(steps) }
Targets == UNION { TargetsIn(l.steps) : l \in Leaves }

\* validateStory was called and has returned its diagnostics.
Validated == "validateStory" \in calls /\ status # "raised"
Diagnostics == BagToSet(validationErrors)

\* C17: every node path that a jump_to, a conditional_jump or a choice
\* option names and that is not the path of a leaf (it is missing, or it
\* names a group) has a diagnostic of severity error that names it.
C17_DanglingReferencesReported ==
    Validated =>
        \A t \in Targets \ LeafPaths :
            \E d \in Diagnostics : d.type = "error" /\ d.subject = t

\* A validated document names a group and a missing node as targets.
C17_Witness ==
    /\ Validated
    /\ Id("G") \in Targets
    /\ Id("Missing") \in Targets
    /\ Id("G") \notin LeafPaths

\* The 'unreachable' warnings for a path.
UnreachableWarnings(p) ==
    { d \in Diagnostics :
        /\ d.message = "Node is defined but never referenced (unreachable)"
        /\ d.subject = p }

\* The leaf paths that can be reached from start by following targets.
RECURSIVE ReachableFrom(_)
ReachableFrom(S) ==
    LET more == { Join(l.keys) : l \in { m \in Leaves :
                     \E n \in Leaves :
                         Join(n.keys) \in S /\ Join(m.keys) \in TargetsIn(n.steps) } }
    IN  IF more \subseteq S THEN S ELSE ReachableFrom(S \cup more)
Reachable == ReachableFrom({story.start} \cap LeafPaths)

\* C18: a leaf gets an 'unreachable' warning exactly when it cannot be
\* reached from start by following jump_to, conditional_jump and choice
\* targets.
C18_UnreachableIffNotReachable ==
    Validated =>
        \A p \in LeafPaths :
            UnreachableWarnings(p) # {} <=> p \notin Reachable

\* C19: a leaf path gets an 'unreachable' warning exactly when it is
\* neither start nor a target named by some step of some node, and then it
\* gets exactly one; no other path gets one.
C19_UnreachableIffUnreferenced ==
    Validated =>
        /\ \A p \in LeafPaths :
               IF p # story.start /\ p \notin Targets
               THEN /\ Cardinality(UnreachableWarnings(p)) = 1
                    /\ \A d \in UnreachableWarnings(p) :
                           /\ d.type = "warning"
                           /\ CopiesIn(d, validationErrors) = 1
               ELSE UnreachableWarnings(p) = {}
        /\ \A d \in Diagnostics :
               d \in UnreachableWarnings(d.subject) =>
                   d.subject \in LeafPaths

\* A validated document has an unreferenced leaf with its warning, a
\* referenced leaf without one, and start is not referenced.
C19_Witness ==
    /\ Validated
    /\ UnreachableWarnings(Dotted("G", "X")) # {}
    /\ Id("B") \in Targets /\ UnreachableWarnings(Id("B")) = {}
    /\ story.start \notin Targets

\* The 'will stop abruptly' warnings for a node.
AbruptWarnings(p) ==
    { d \in Diagnostics :
        d.message = "Node will stop abruptly" /\ d.subject = p }
EndingTypes == {"jump_to", "conditional_jump", "choice", "end_story"}

\* C20: a non-empty node gets the 'will stop abruptly' warning exactly when
\* its last step is not a jump_to, conditional_jump, choice or end_story.
C20_AbruptIffLastStepNotEnding ==
    Validated =>
        \A l \in Leaves :
            Len(l.steps) > 0 =>
                (AbruptWarnings(Join(l.keys)) # {}
                    <=> l.steps[Len(l.steps)].type \notin EndingTypes)

\* C21: for a jump_to step whose target is no node of the tree there is a
\* diagnostic of severity error whose location is that step (the path of
\* its node and its index).
C21_DanglingJumpLocatedAtStep ==
    Validated =>
        \A l \in Leaves :
            \A i \in 1..Len(l.steps) :
                (l.steps[i].type = "jump_to"
                    /\ TargetsOf(l.steps[i]) # {}
                    /\ l.steps[i].nodeId \notin LeafPaths) =>
                    \E d \in Diagnostics :
                        /\ d.type = "error"
                        /\ d.location = AtStep(Join(l.keys), i - 1)


\* C22: validateStory returns for every document, the malformed ones
\* included: no call of it raises.
C22_ValidateNeverThrows == "validateStory" \in calls => status # "raised"

\* C23: a call of validateStory leaves the document as it was: start,
\* variables, nodes, characters and places (and which of them it has) are
\* after the call what they were before it.
C23_ValidateLeavesStory ==
    [][("validateStory" \notin calls /\ "validateStory" \in calls')
           => story' = story]_vars
\* validateStory has returned diagnostics for a document without variables.
C23_Witness ==
    /\ Validated
    /\ story = BareDocument
    /\ \E d \in Diagnostics : d.message = "Story missing variables"

\* An error diagnostic about start: the one located at story.start, or the
\* one for a story without start.
StartErrors ==
    { d \in Diagnostics :
        /\ d.type = "error"
        /\ d.location = AtStart \/ d.message = "Story missing start" }

\* C24: the diagnostics hold an error about start exactly when start is not
\* the path of a leaf of the node tree.
C24_StartErrorIffNotLeaf ==
    Validated => (StartErrors # {} <=> story.start \notin LeafPaths)

\* C25: whatever validateStory returned, the constructor returns and its
\* first act on the story is the jump to story.start, which either enters
\* the node or is logged as failed. (An exception of a compute function of
\* a set_variable step of the first walk is the author's, see C12.)
C25_ConstructionCompletes ==
    last.op = "construct" =>
        /\ status = "raised" =>
               /\ log # <<>>
               /\ log[Len(log)].ev = "step"
               /\ log[Len(log)].type = "set_variable"
        /\ log # <<>>
        /\ log[1].ev \in {"jump", "jump_failed"}
        /\ log[1].target = story.start

\* The steps a walk suspends on.
SuspendingTypes == {"dialogue", "narration", "choice"}

\* The walk stops at a suspending step: nothing is logged after it.
WalkStopsAtSuspension ==
    \A i \in 1..Len(log) :
        (log[i].ev = "step" /\ log[i].type \in SuspendingTypes) =>
            i = Len(log)

\* The last signal was not the one the suspension waits for.
UnmatchedSignal ==
    \/ last.op = "advance" /\ last.pre.mode = "AwaitingChoice"
    \/ last.op = "choose" /\ last.pre.mode = "AwaitingAdvance"

\* C26: a walk that suspends on a dialogue, narration or choice step
\* executes nothing after it, and until the matching signal arrives (advance
\* for dialogue and narration, a choice for choice) no step executes and no
\* variable changes.
C26_SuspendedUntilMatchingSignal ==
    /\ WalkStopsAtSuspension
    /\ UnmatchedSignal =>
           /\ NoStepExecuted
           /\ variables = last.pre.variables
           /\ mode = last.pre.mode

\* The log entries at which a walk returns: the node is complete, a step
\* suspends or ends the story, or a jump failed.
WalkReturns ==
    {i \in 1..Len(log) :
        \/ log[i].ev \in {"node_complete", "jump_failed"}
        \/ /\ log[i].ev = "step"
           /\ log[i].type \in SuspendingTypes \cup {"end_story"}}

\* The last jump made before log entry k.
LastJumpBefore(k) ==
    CHOOSE j \in JumpsMade : j < k /\ \A i \in JumpsMade : i < k => i <= j

\* C27: after a jump was made nothing of the sequence jumped out of is
\* executed. What is logged after a jump is the walk of its target from
\* cursor 0, one step after the other; nothing is logged after the walk of
\* the target returned; and the cursor stays where that walk left it.
C27_NoContinuationAfterJump ==
    /\ \A k \in 1..Len(log) :
           (/\ log[k].ev \in {"step", "node_complete"}
            /\ \E j \in JumpsMade : j < k) =>
               /\ log[k].node = log[LastJumpBefore(k)].target
               /\ log[k].idx = k - LastJumpBefore(k) - 1
    /\ JumpsMade # {} =>
           /\ \A i \in WalkReturns : i = Len(log)
           /\ status = "ok" =>
                  /\ currentNode = log[Len(log)].node
                  /\ currentStepIndex = log[Len(log)].idx
\* A jump_to step that is not the last of its node jumped, and the walk of
\* the target suspended: the cursor is in the target.
C27_Witness ==
    /\ status = "ok"
    /\ mode \in {"AwaitingAdvance", "AwaitingChoice"}
    /\ \E j \in JumpsMade :
           /\ j > 1
           /\ log[j - 1].ev = "step"
           /\ log[j - 1].type = "jump_to"
           /\ log[j - 1].idx + 1 < Len(StepsOf(log[j - 1].node))
           /\ currentNode = log[j].target
           /\ currentNode # log[j - 1].node

\* The log entries that are failed jumps of a jump_to or conditional_jump
\* step.
FailedStepJumps ==
    {i \in 2..Len(log) :
        /\ log[i].ev = "jump_failed"
        /\ log[i - 1].ev = "step"
        /\ log[i - 1].type \in {"jump_to", "conditional_jump"}}

\* C28: a jump_to or conditional_jump step whose target does not resolve
\* ends the walk without raising: nothing is logged after the failure, and
\* node, step sequence, cursor and variables are those the step found.
C28_FailedJumpHalts ==
    \A i \in FailedStepJumps :
        /\ ~resolveNode(story, log[i].target).ok
        /\ i = Len(log)
        /\ status = "ok"
        /\ mode = "Halted"
        /\ currentNode = log[i - 1].node
        /\ currentSteps = StepsOf(log[i - 1].node)
        /\ currentStepIndex = log[i - 1].idx
        /\ variables = log[i - 1].variables
\* The else branch of a conditional_jump with a step after it was taken and
\* named a node the story does not have; the walk is halted at that step.
C28_Witness ==
    /\ story = FailedBranchStory
    /\ \E i \in FailedStepJumps :
           /\ log[i - 1].type = "conditional_jump"
           /\ log[i].target = Id("Nowhere")
           /\ log[i - 1].idx + 1 < Len(currentSteps)
    /\ currentNode = Id("Start")
    /\ currentStepIndex = 0
    /\ mode = "Halted"

\* The step names a place, a character, a pose of the character or a
\* position that the story does not have.
UnknownLookup(step) ==
    \/ /\ step.type = "background"
       /\ step.id \notin DOMAIN story.places
    \/ /\ step.type = "show_character"
       /\ \/ step.id \notin DOMAIN story.characters
          \/ /\ step.id \in DOMAIN story.characters
             /\ step.pose \notin DOMAIN story.characters[step.id].poses
          \/ step.position \notin Positions

\* The executions of such steps in the log.
UnknownLookups ==
    {i \in 1..Len(log) :
        /\ log[i].ev = "step"
        /\ log[i].type \in {"background", "show_character"}
        /\ UnknownLookup(StepAt(log[i]))}

\* The engine constructed with the story of LookupStories without its
\* unknown step.
WithoutLookup == init(Constructed(LookupStoryOf(<<>>)))

\* C29: a background or show_character step that names an unknown place,
\* character, pose or position raises nothing and does not suspend the
\* walk, which goes on with the next step on the same variables; node,
\* variables and visible characters are afterwards what they are for the
\* story without the step, and the cursor is one further.
C29_UnknownLookupIsNoOp ==
    /\ \A i \in UnknownLookups :
           /\ i < Len(log) \/ status = "diverged"
           /\ i < Len(log) =>
                  /\ log[i + 1].ev \in {"step", "node_complete"}
                  /\ log[i + 1].node = log[i].node
                  /\ log[i + 1].idx = log[i].idx + 1
                  /\ log[i + 1].variables = log[i].variables
    /\ (story \in LookupStories /\ last.op = "construct") =>
           /\ status = "ok"
           /\ currentNode = WithoutLookup.currentNode
           /\ currentStepIndex = WithoutLookup.currentStepIndex + 1
           /\ variables = WithoutLookup.variables
           /\ visibleCharacters = WithoutLookup.visibleCharacters
           /\ waitingForInput = WithoutLookup.waitingForInput
           /\ dialogueText = WithoutLookup.dialogueText

\* The segments of the path resolved, and whether the walk of the first n
\* of them finds every one of them.
ResolvedParts == Split(resolved.path)
Walks(n) ==
    resolveNode(story, Join(SubSeq(ResolvedParts, 1, n))).error # "not found"
\* The position of the first segment that is absent.
FirstMissing ==
    CHOOSE n \in 1..Len(ResolvedParts) :
        ~Walks(n) /\ \A m \in 1..(n - 1) : Walks(m)
\* The engine's resolveNode failed because a segment is absent.
SegmentAbsent ==
    /\ "resolveNode" \in calls
    /\ resolved.engine.error = "not found"

HideSteps ==
    {i \in 1..Len(log) : log[i].ev = "step" /\ log[i].type = "hide_character"}

\* C31: a hide_character step for c empties every position that showed c,
\* leaves the other positions as they were (all of them when c was shown
\* nowhere), changes no variable, and the walk goes on with the next step.
C31_HideClearsOnlyThatCharacter ==
    \A i \in HideSteps :
        /\ i < Len(log) \/ status = "diverged"
        /\ i < Len(log) =>
               /\ log[i + 1].ev \in {"step", "node_complete"}
               /\ log[i + 1].node = log[i].node
               /\ log[i + 1].idx = log[i].idx + 1
               /\ log[i + 1].variables = log[i].variables
               /\ \A p \in Positions :
                      /\ log[i].visible[p] = StepAt(log[i]).id =>
                             log[i + 1].visible[p] = ""
                      /\ log[i].visible[p] # StepAt(log[i]).id =>
                             log[i + 1].visible[p] = log[i].visible[p]
\* carol was hidden while alice stood left and right of her: the center is
\* empty, alice is where she was, and the narration after the step is shown.
C31_Witness ==
    /\ story = StageStoryOf("carol")
    /\ \E i \in HideSteps :
           /\ log[i].visible =
                  [left |-> "alice", center |-> "carol", right |-> "alice"]
           /\ log[i + 1].visible =
                  [left |-> "alice", center |-> "", right |-> "alice"]
    /\ visibleCharacters =
           [left |-> "alice", center |-> "", right |-> "alice"]
    /\ mode = "AwaitingAdvance"
    /\ dialogueText = "A"


(***************************************************************************)
(* Properties of the checks of the validator.                              *)
(***************************************************************************)
\* There is a diagnostic of that severity and message.
Reported(type, message) ==
    \E d \in Diagnostics : d.type = type /\ d.message = message

\* C32: a story without start gets an error, one without nodes an error,
\* one without variables a warning and no error for it; each whatever
\* other fields the story has.
C32_RequiredFieldsReported ==
    Validated =>
        /\ ~Has(story, "start") => Reported("error", "Story missing start")
        /\ ~Has(story, "nodes") => Reported("error", "Story missing nodes")
        /\ ~Has(story, "variables") =>
               /\ Reported("warning", "Story missing variables")
               /\ ~Reported("error", "Story missing variables")

\* The diagnostics located at the step at index i (from 0) of a node.
DiagnosticsAt(nodeId, i) ==
    { d \in Diagnostics : d.location = AtStep(nodeId, i) }

\* The node id counts as referenced: it has no 'unreachable' warning, and
\* when it is no node of the tree it has the 'does not exist' error.
CountsAsReferenced(nodeId) ==
    /\ UnreachableWarnings(nodeId) = {}
    /\ nodeId \notin LeafPaths =>
           \E d \in Diagnostics :
               /\ d.type = "error"
               /\ d.message = "Referenced node does not exist"
               /\ d.subject = nodeId

\* C33: a conditional_jump step gets an error exactly when it has no test
\* and an error exactly when it has no thenNodeId, and no other diagnostic
\* (none for a missing elseNodeId); its thenNodeId and its elseNodeId, when
\* set, count as referenced.
C33_ConditionalJumpChecks ==
    Validated =>
        \A l \in Leaves :
            \A i \in 1..Len(l.steps) :
                l.steps[i].type = "conditional_jump" =>
                    LET step == l.steps[i]
                        found == DiagnosticsAt(Join(l.keys), i - 1)
                        noTest ==
                            { d \in found :
                                d.message = "conditional_jump step missing test" }
                        noThen ==
                            { d \in found :
                                d.message =
                                    "conditional_jump step missing thenNodeId" }
                    IN  /\ noTest # {} <=> step.test = NoTest
                        /\ noThen # {} <=> step.thenNodeId = NullId
                        /\ \A d \in noTest \cup noThen : d.type = "error"
                        /\ found = noTest \cup noThen
                        /\ step.thenNodeId # NullId =>
                               CountsAsReferenced(step.thenNodeId)
                        /\ step.elseNodeId # NullId =>
                               CountsAsReferenced(step.elseNodeId)
\* A conditional_jump with a test, a missing node as then target and G.X as
\* else target was validated: no diagnostic at the step, an error for the
\* then target, and G.X is not reported unreachable.
C33_Witness ==
    /\ Validated
    /\ story = Document(<<conditionalJump(GeTest("score", 1), Id("Missing"),
                                          Dotted("G", "X"))>>)
    /\ DiagnosticsAt(Id("A"), 0) = {}
    /\ CountsAsReferenced(Id("Missing"))
    /\ Id("Missing") \notin LeafPaths
    /\ UnreachableWarnings(Dotted("G", "X")) = {}

\* The error diagnostics located at option j (from 0) of the step at index i
\* of a node.
OptionErrors(nodeId, i, j) ==
    { d \in Diagnostics :
        d.type = "error" /\ d.location = AtOption(nodeId, i, j) }

\* The option is an array of two or three elements with a non-empty label.
WellFormedOption(option) ==
    /\ option.array
    /\ option.arity \in {2, 3}
    /\ option.label # ""

\* C34: a choice step gets an error when it has no options, an error for
\* each option that is not a two- or three-element array with a non-empty
\* label and for no other option, a warning and no error when it has no
\* prompt; the target of each option, when set, counts as referenced.
C34_ChoiceChecks ==
    Validated =>
        \A l \in Leaves :
            \A i \in 1..Len(l.steps) :
                l.steps[i].type = "choice" =>
                    LET step == l.steps[i]
                        found == DiagnosticsAt(Join(l.keys), i - 1)
                    IN  /\ Len(step.options) = 0 <=>
                               \E d \in found :
                                   /\ d.type = "error"
                                   /\ d.message = "choice step has no options"
                        /\ step.prompt = "" <=>
                               \E d \in found :
                                   /\ d.type = "warning"
                                   /\ d.message = "choice step missing prompt"
                        /\ \A d \in found :
                               d.type = "error" =>
                                   d.message = "choice step has no options"
                        /\ \A j \in 1..Len(step.options) :
                               /\ ~WellFormedOption(step.options[j]) <=>
                                      OptionErrors(Join(l.keys), i - 1, j - 1)
                                          # {}
                               /\ (/\ step.options[j].array
                                   /\ step.options[j].nodeId # NullId) =>
                                      CountsAsReferenced(step.options[j].nodeId)


(***************************************************************************)
(* Properties of the waiting flag and of progress.                         *)
(***************************************************************************)
\* The last walk suspended on a dialogue or narration step, and that step
\* is the one at the cursor.
SuspendedOnText ==
    /\ mode = "AwaitingAdvance"
    /\ AtCursor(currentSteps, currentStepIndex) \in {"dialogue", "narration"}

\* C35: waitingForInput is set exactly when the walk is suspended on a
\* dialogue or narration step at the cursor of the current node.
C35_WaitingIffSuspendedOnText ==
    waitingForInput <=> SuspendedOnText

\* The handler that returned e moved the cursor or the node: it made a jump
\* or went on to a further step or to the end of the node.
Moved(e) ==
    \E k \in 1..Len(e.log) : e.log[k].ev \in {"jump", "step", "node_complete"}

\* Some signal the page can deliver now moves the cursor or the node: a
\* click outside the buttons, or a click on a button of the open menu.
SomeSignalMoves ==
    \/ \E e \in {advance(Engine)} : Moved(e)
    \/ /\ ~choiceMenuHidden
       /\ \E i \in 1..Len(choiceButtons) :
              \E e \in {choiceClick(Engine, choiceButtons[i])} : Moved(e)

\* The engine rests inside its node, at a step that is neither end_story
\* nor a jump that failed, and not because a walk raised or did not return.
RestsInsideNode ==
    /\ mode \notin {"raised", "diverged", "Halted"}
    /\ currentStepIndex < Len(currentSteps)
    /\ AtCursor(currentSteps, currentStepIndex) # "end_story"

\* C36: whenever the engine rests inside its node at a step that is neither
\* end_story nor a failed jump, some signal is accepted and moves the
\* cursor or the node.
C36_NeverStuckInsideNode ==
    RestsInsideNode => SomeSignalMoves


(***************************************************************************)
(* Validator and engine side by side.                                      *)
(***************************************************************************)
\* validateStory returned no diagnostic of severity error.
NoValidationError ==
    /\ Validated
    /\ \A d \in Diagnostics : d.type # "error"

\* The last handler met a lookup that failed: a place, character, pose or
\* position the story does not have, or a jump whose target did not resolve.
LookupFailed ==
    \/ UnknownLookups # {}
    \/ \E i \in 1..Len(log) : log[i].ev = "jump_failed"

\* C37: in a playthrough of a story for which validateStory returned no
\* error no lookup fails: every place, character, pose and position shown
\* and every jump and choice target is found.
C37_NoErrorNoLookupFailure ==
    NoValidationError => ~LookupFailed

\* C38: for every node tree and every dotted path the resolveNode of the
\* engine and the resolveNode of the validator both return the same step
\* array or both return null.
C38_ResolversAgree ==
    "resolveNode" \in calls =>
        /\ resolved.engine.ok = resolved.validator.ok
        /\ resolved.engine.steps = resolved.validator.steps

\* Both resolvers have returned the steps of a leaf under a group.
C38_Witness ==
    /\ "resolveNode" \in calls
    /\ Len(Split(resolved.path)) = 2
    /\ resolved.engine.ok
    /\ resolved.validator.ok
    /\ resolved.validator.steps # <<>>

\* What collectNodeIds returns for the tree of the story.
Collected == collectNodeIds(story.nodes, <<>>)

\* C39: the paths collectNodeIds collects are the paths resolveNode
\* resolves: a collected path resolves, whatever the node names (a name
\* may contain a dot), and a path that resolves has been collected.
C39_CollectedIffResolves ==
    /\ "resolveNode" \in calls
    /\ Has(story, "nodes")
    /\ ~collectNodeIdsRaises(story.nodes)
    => /\ resolved.path \in Collected <=> resolved.validator.ok
       /\ resolved.path \in Collected <=> resolved.engine.ok


(***************************************************************************)
(* Properties of the walk step by step.                                    *)
(***************************************************************************)
\* A walk is under way.
Running == status = "diverged"

\* The types of the steps after which executeSteps returns.
Stoppers == {"dialogue", "narration", "choice", "end_story", "jump_to"}

\* The index of the first such step of a step sequence (one past the end if
\* there is none).
StopIndex(steps) ==
    LET stops == {i \in 1..Len(steps) : steps[i].type \in Stoppers}
    IN  IF stops = {} THEN Len(steps) + 1
        ELSE CHOOSE i \in stops : \A j \in stops : i <= j

\* The leaves a walk from the first step of the leaf n can jump to before
\* it meets a suspending step.
JumpsFrom(n) ==
    LET steps == resolveNode(story, n).steps
        upTo == StopIndex(steps)
    IN  { t \in LeafPaths :
            \E i \in 1..Len(steps) :
                /\ i <= upTo
                /\ \/ steps[i].type = "jump_to" /\ steps[i].nodeId = t
                   \/ /\ steps[i].type = "conditional_jump"
                      /\ t \in {steps[i].thenNodeId, steps[i].elseNodeId} }

\* The leaves reached from the leaves of a set by such jumps.
RECURSIVE JumpClosure(_)
JumpClosure(set) ==
    LET more == set \cup UNION { JumpsFrom(n) : n \in set }
    IN  IF more = set THEN set ELSE JumpClosure(more)

\* The leaves on a cycle of jumps that passes only through non-suspending
\* steps.
JumpCycleNodes == { n \in LeafPaths : n \in JumpClosure(JumpsFrom(n)) }
HasJumpCycle == JumpCycleNodes # {}

\* The walk is under way on such a cycle, before the suspending steps of
\* the node.
InJumpCycle ==
    /\ Running
    /\ currentNode \in JumpCycleNodes
    /\ currentStepIndex < StopIndex(currentSteps)

\* How the spec says a walk ends.
Endings ==
    {"AwaitingAdvance", "AwaitingChoice", "Exhausted", "Halted", "Ended"}

BeginsWithJump(n) ==
    LET steps == resolveNode(story, n).steps
    IN  /\ Len(steps) > 0
        /\ steps[1].type = "jump_to"
        /\ steps[1].nodeId \in LeafPaths

\* The target of that jump_to (n itself if there is none).
FirstJump(n) ==
    IF BeginsWithJump(n) THEN resolveNode(story, n).steps[1].nodeId ELSE n

\* The leaves that the first jumps lead to from n in k jumps or fewer.
RECURSIVE FirstJumps(_, _)
FirstJumps(n, k) ==
    IF k = 0 THEN {} ELSE {FirstJump(n)} \cup FirstJumps(FirstJump(n), k - 1)

\* The leaves on a cycle of jump_to steps each of which is the first step
\* of its node.
JumpToCycleNodes ==
    { n \in LeafPaths :
        /\ BeginsWithJump(n)
        /\ n \in FirstJumps(n, Cardinality(LeafPaths)) }

\* The walk is under way at the first step of a leaf on such a cycle.
InJumpToCycle ==
    /\ Running
    /\ currentNode \in JumpToCycleNodes
    /\ currentStepIndex = 0

====
